---- MODULE Spec2Model ----
(***************************************************************************)
(* Model of the metric polling core of the RealtimeV2 Stream Deck plugin.  *)
(*                                                                         *)
(* Part 1: ActiveUsersAction (src/src/actions/active-users.ts).  An        *)
(* `await` on a promise of the Stream Deck SDK (setTitle, setImage) or of  *)
(* the analytics service (a network fetch) is a point where the handler is *)
(* suspended and any other event handler, timer callback or continuation   *)
(* may run; the code between two such awaits is one atomic action.         *)
(* renderTile (src/src/utils/canvas-renderer.ts) is an async function with *)
(* no await in its body: awaiting it lets no host event, timer or fetch    *)
(* completion in, so rendering belongs to the step that calls it.  The     *)
(* pair setImage / setTitle that ends an update is one push.               *)
(***************************************************************************)
EXTENDS Integers, Sequences, FiniteSets, TLC

(***************************************************************************)
(* Bounds of the model.                                                    *)
(***************************************************************************)
MaxFetch == 2
MaxEvents == 3

Ctx == {"c1", "c2"}
Prefs == {"p1", "p2"}
NoPref == "defaults"
FetchIds == 1..MaxFetch
Absent == "absent"
Changes == {15}

FailValue == -1

(***************************************************************************)
(* Part 3 (AnalyticsService).  Time is counted in quarters of an hour: the *)
(* 30 minutes of the snapshot are 2.  Values are what a metric can read.   *)
(***************************************************************************)
MaxCalls == 3
MaxElapsed == 3
thirtyMinutesAgo == 2
Values == {0, 50, 100, 115}
RollingMetrics == {"activeUsers", "dailyPageviews", "weeklyPageviews"}
CallKinds == RollingMetrics \cup {"fixed", "dual"}

(***************************************************************************)
(* Optional values: `undefined` / `null` is the empty sequence, a defined  *)
(* value v is <<v>>.                                                       *)
(***************************************************************************)
Undefined == <<>>
Null == <<>>
Some(v) == <<v>>

VARIABLES
  activeContexts,   \* Map<string, action>: its keys, in insertion order
  settingsCache,    \* Map<string, settings>: [Ctx -> Prefs \cup {Absent}]
  pollInterval,     \* the stored timer handle, Null or Some(timer id)
  liveTimers,       \* intervals armed by setInterval and not yet cleared
  lastValue,        \* cached value of the latest successful cycle
  lastChange,       \* cached change of the latest successful cycle
  lastPreviousValue,  \* MonthlyUniqueUsersAction only: previous-period value
  lastPreviousChange, \* MonthlyUniqueUsersAction only: previous-period change
  handlers,         \* suspended event handlers / updateMetric calls
  cycles,           \* updateAllInstances invocations in flight
  display,          \* what each key currently shows
  nextFetch,        \* id the next started fetch gets
  events,           \* number of host events delivered so far
  sessionStart,     \* nextFetch at the moment the registry last became empty
  activeUsersSnapshot, \* AnalyticsService: {value, timestamp} of the 30-minute snapshot
  previousValues,   \* AnalyticsService (rolling version): previous value per metric
  now,              \* Date.now(), in units of a quarter of an hour
  reading,          \* the last {value, change} a get...WithChange call returned
  lastOk,           \* per call kind: the value of its latest successful poll
  calls,            \* number of get...WithChange calls completed so far
  report,           \* the two windows of the latest runReport response of the dual call
  config,           \* loadConfig: what JSON.parse of config.json gives
  loaded,           \* loadConfig: what the call returned or that it threw
  data,             \* renderTile: the TileData it is called with
  svg,              \* renderTile: what the SVG it built draws below the value
  metrics,          \* per action class: the fields of its one instance and of its service
  scope,            \* events and fetches so far, and the action class that took the last step
  inspectorCache,   \* property inspector: its settingsCache object
  saveSettingsTimer, \* property inspector: the handle of the last setTimeout, or Null
  timeouts,         \* property inspector: the timeouts set and neither fired nor cleared
  clock,            \* property inspector: the time, in units of 100 ms
  sent,             \* property inspector: the setSettings messages sent, oldest first
  hostSettings,     \* the settings the host holds for the key
  burst             \* the saveSettings calls: the cache before the burst under way, its edits, the calls and bursts so far

\* The state of the actions (parts 1 and 2).
pollVars == <<activeContexts, settingsCache, pollInterval, liveTimers, lastValue,
              lastChange, lastPreviousValue, lastPreviousChange, handlers,
              cycles, display, nextFetch, events, sessionStart>>

\* The state of the analytics service (part 3).
trackerVars == <<activeUsersSnapshot, previousValues, now, reading, lastOk,
                 calls, report>>

\* The input and the result of the two helper functions (part 4).
utilVars == <<config, loaded, data, svg>>

\* What the actions leave alone, and what the analytics service leaves alone.
\* The state of the property inspector (part 6).
inspectorVars == <<inspectorCache, saveSettingsTimer, timeouts, clock, sent,
                   hostSettings, burst>>

notPollVars == <<trackerVars, utilVars, metrics, scope, inspectorVars>>
notTrackerVars == <<pollVars, utilVars, metrics, scope, inspectorVars>>

vars == <<pollVars, trackerVars, utilVars, metrics, scope, inspectorVars>>

\* The fields ActiveUsersAction does not have.
monthlyOnly == <<lastPreviousValue, lastPreviousChange>>

Range(s) == {s[i] : i \in 1..Len(s)}
Remove(s, c) == SelectSeq(s, LAMBDA x : x # c)

(***************************************************************************)
(* What a key shows.  kind: "none" | "loading" | "updating" | "error" |    *)
(* "tile".  src is the id of the fetch whose result is shown.  A key that   *)
(* disappears shows nothing.                                               *)
(***************************************************************************)
Blank == [kind |-> "none", value |-> 0, prefs |-> NoPref, src |-> 0]
TitleOnly(k) == [Blank EXCEPT !.kind = k]
ErrorShown(f) == [Blank EXCEPT !.kind = "error", !.src = f]
Tile(v, p, f) == [kind |-> "tile", value |-> v, prefs |-> p, src |-> f]

(***************************************************************************)
(* What analyticsService.getActiveUsersWithChange() can answer to fetch    *)
(* number f: a reading {value, change}, the failure sentinel {-1, 0}, or   *)
(* an exception (initialize() rethrows).  The metric source is an input:   *)
(* fetch f reads the value f, so a shown value identifies its fetch.       *)
(***************************************************************************)
FetchResults(f) ==
  {[thrown |-> FALSE, value |-> f, change |-> ch] : ch \in Changes}
    \cup {[thrown |-> FALSE, value |-> FailValue, change |-> 0],
          [thrown |-> TRUE, value |-> FailValue, change |-> 0]}

Failed(r) == r.thrown \/ r.value = FailValue

(***************************************************************************)
(* A suspended handler.  kind: "appear" (awaiting setTitle("Loading...")), *)
(* "keydown" (awaiting setTitle("Updating...")), "refetch" (updateMetric   *)
(* awaiting its own fetch, number src).  first: the registry was empty     *)
(* when this subscribe arrived.                                            *)
(***************************************************************************)
Handler(k, c, s, f, first) ==
  [kind |-> k, ctx |-> c, settings |-> s, src |-> f, first |-> first]

(***************************************************************************)
(* One updateAllInstances() invocation.  phase: "fetch" (awaiting the      *)
(* fetch), "tiles" (the publish loop), "errors" (the error loop).  todo is *)
(* what the live Map iterator has still to visit.  owed: the keys that     *)
(* subscribed while the fetch was in flight, have stayed subscribed since  *)
(* and have not been pushed this cycle's result yet.                       *)
(***************************************************************************)
Cycle(f) == [id |-> f, phase |-> "fetch", todo |-> <<>>, value |-> 0,
             owed |-> {}]

\* A config.json with the required field only, and a tile without a change.
DefaultConfig ==
  [gaPropertyId |-> Some("123456789"), pollIntervalMs |-> Undefined,
   logLevel |-> Undefined]
DefaultData == [percentageChange |-> Undefined, percentageY |-> Undefined]

NotLoaded ==
  [done |-> FALSE, thrown |-> FALSE, gaPropertyId |-> Undefined,
   pollIntervalMs |-> 0, logLevel |-> Undefined]
NoArrow == [dir |-> "none", points |-> {}]
NotRendered ==
  [done |-> FALSE, textLength |-> 0, textY |-> 0, arrow |-> NoArrow]

\* The helper functions before they are called on cfg and d.
NotCalled(cfg, d) ==
  /\ config = cfg
  /\ loaded = NotLoaded
  /\ data = d
  /\ svg = NotRendered

MetricKey == {"active-users", "daily-pageviews"}

\* The fields of one action instance and, in previous, the comparison value
\* its own AnalyticsService keeps for its metric.  stops counts the polling
\* sessions of the instance that have ended (an armed timer was cleared).
NewAction ==
  [activeContexts |-> <<>>, settingsCache |-> [c \in Ctx |-> Absent],
   pollInterval |-> Null, liveTimers |-> {}, lastValue |-> Undefined,
   lastChange |-> Undefined, handlers |-> {}, cycles |-> {},
   display |-> [c \in Ctx |-> Blank], previous |-> 0, stops |-> 0]

\* The settings of a key as the property inspector handles them: a value
\* per field, Unset for a field the object does not have.
InspectorKeys == {"titleSize", "valueSize"}
InspectorValues == {14, 20}
Unset == 0
NoSettings == [k \in InspectorKeys |-> Unset]

\* The actions and the analytics service right after construction, and the
\* property inspector once its socket is open.
Constructed ==
  /\ inspectorCache = NoSettings
  /\ saveSettingsTimer = Null
  /\ timeouts = {}
  /\ clock = 0
  /\ sent = <<>>
  /\ hostSettings = NoSettings
  /\ burst = [base |-> NoSettings, edits |-> NoSettings, calls |-> 0,
              started |-> 0]
  /\ metrics = [m \in MetricKey |-> NewAction]
  /\ scope = [events |-> 0, nextFetch |-> 1, metric |-> "none"]
  /\ activeContexts = <<>>
  /\ settingsCache = [c \in Ctx |-> Absent]
  /\ pollInterval = Null
  /\ liveTimers = {}
  /\ lastValue = Undefined
  /\ lastChange = Undefined
  /\ lastPreviousValue = Undefined
  /\ lastPreviousChange = Undefined
  /\ handlers = {}
  /\ cycles = {}
  /\ display = [c \in Ctx |-> Blank]
  /\ nextFetch = 1
  /\ events = 0
  /\ sessionStart = 1
  /\ activeUsersSnapshot = [value |-> 0, timestamp |-> 0]
  /\ previousValues = [m \in RollingMetrics |-> 0]
  /\ now = thirtyMinutesAgo
  /\ reading = [by |-> "none", yielded |-> FALSE, value |-> 0,
                change |-> [num |-> 0, den |-> 1]]
  /\ lastOk = [k \in CallKinds |-> Undefined]
  /\ calls = 0
  /\ report = [today |-> 0, yesterday |-> 0]

Init == Constructed /\ NotCalled(DefaultConfig, DefaultData)

(***************************************************************************)
(* The live iteration of `for (... of this.activeContexts)`: a key added   *)
(* to the Map while a loop is suspended is visited by that loop, a key     *)
(* deleted before its turn is skipped.                                     *)
(***************************************************************************)
MapSet(cy, c) ==
  IF cy.phase = "fetch"
    THEN [cy EXCEPT !.owed = @ \cup {c}]
    ELSE [cy EXCEPT !.todo = Append(@, c)]

MapDelete(cy, c) ==
  [cy EXCEPT !.todo = Remove(@, c), !.owed = @ \ {c}]

\* A slip that renders every key with the defaults.
SettingsOf_defaults(c) == NoPref

SettingsOf(c) ==
  IF settingsCache[c] = Absent THEN NoPref ELSE settingsCache[c]

HasCache == lastValue # Undefined /\ lastChange # Undefined

CanFetch == nextFetch <= MaxFetch
HostEvent == events < MaxEvents /\ events' = events + 1

\* A slip that renders with the settings stored for the key, not the given.
updateMetric_storedPrefs(c, s, v) ==
  [display EXCEPT ![c] = Tile(v, SettingsOf(c), v)]

(***************************************************************************)
(* updateMetric(action, settings, value, change) with a value that is not  *)
(* the sentinel: render the tile with the given settings and push it.      *)
(***************************************************************************)
updateMetric(c, s, v) == [display EXCEPT ![c] = Tile(v, s, v)]

(***************************************************************************)
(* onWillAppear up to `await ev.action.setTitle("Loading...")`.            *)
(***************************************************************************)
onWillAppear(c, s) ==
  /\ HostEvent
  /\ c \notin Range(activeContexts)
  /\ activeContexts' = Append(activeContexts, c)
  /\ settingsCache' = [settingsCache EXCEPT ![c] = s]
  /\ display' = [display EXCEPT ![c] = TitleOnly("loading")]
  /\ handlers' = handlers \cup
       {Handler("appear", c, s, 0, activeContexts = <<>>)}
  /\ cycles' = {MapSet(cy, c) : cy \in cycles}
  /\ UNCHANGED <<pollInterval, liveTimers, lastValue, lastChange, nextFetch,
                 sessionStart>>
  /\ UNCHANGED monthlyOnly
  /\ UNCHANGED notPollVars

(***************************************************************************)
(* startPolling: the immediate updateAllInstances() call runs up to its    *)
(* await of the fetch, then setInterval arms a new timer and its handle    *)
(* overwrites pollInterval.  The timer is named after that first fetch.    *)
(***************************************************************************)
startPolling ==
  /\ CanFetch
  /\ cycles' = cycles \cup {Cycle(nextFetch)}
  /\ nextFetch' = nextFetch + 1
  /\ liveTimers' = liveTimers \cup {nextFetch}
  /\ pollInterval' = Some(nextFetch)

(***************************************************************************)
(* `if (this.activeContexts.size === 1)` of onWillAppear, evaluated when   *)
(* the handler resumes.                                                    *)
(***************************************************************************)
IsFirstInstance == Len(activeContexts) = 1

(***************************************************************************)
(* onWillAppear after the await: start polling, or push the cached         *)
(* reading through updateMetric with the settings of the event.            *)
(***************************************************************************)
onWillAppearResume(h) ==
  /\ h \in handlers
  /\ h.kind = "appear"
  /\ IF IsFirstInstance
       THEN /\ startPolling
            /\ UNCHANGED display
       ELSE /\ display' = IF HasCache
                            THEN updateMetric(h.ctx, h.settings, lastValue[1])
                            ELSE display
            /\ UNCHANGED <<cycles, nextFetch, liveTimers, pollInterval>>
  /\ handlers' = handlers \ {h}
  /\ UNCHANGED <<activeContexts, settingsCache, lastValue, lastChange,
                 events, sessionStart>>
  /\ UNCHANGED monthlyOnly
  /\ UNCHANGED notPollVars

(***************************************************************************)
(* onDidReceiveSettings: store the settings, re-render the cached reading. *)
(***************************************************************************)
onDidReceiveSettings(c, s) ==
  /\ HostEvent
  /\ c \in Range(activeContexts)
  /\ settingsCache' = [settingsCache EXCEPT ![c] = s]
  /\ display' = IF HasCache THEN updateMetric(c, s, lastValue[1]) ELSE display
  /\ UNCHANGED <<activeContexts, pollInterval, liveTimers, lastValue,
                 lastChange, handlers, cycles, nextFetch, sessionStart>>
  /\ UNCHANGED monthlyOnly
  /\ UNCHANGED notPollVars

(***************************************************************************)
(* A slip that drops the size test of onWillDisappear.                     *)
(***************************************************************************)
NoInstanceLeft_always(ctxs) == TRUE

\* A slip that stops polling while one instance is still visible.
NoInstanceLeft_atMostOne(ctxs) == Len(ctxs) <= 1

(***************************************************************************)
(* `if (this.activeContexts.size === 0)` of onWillDisappear.               *)
(***************************************************************************)
NoInstanceLeft(ctxs) == Len(ctxs) = 0

(***************************************************************************)
(* onWillDisappear, with stopPolling inlined: the stored handle is cleared *)
(* (only that one), and the cache is dropped.                              *)
(***************************************************************************)
onWillDisappear(c) ==
  /\ HostEvent
  /\ c \in Range(activeContexts)
  /\ activeContexts' = Remove(activeContexts, c)
  /\ settingsCache' = [settingsCache EXCEPT ![c] = Absent]
  /\ cycles' = {MapDelete(cy, c) : cy \in cycles}
  /\ IF NoInstanceLeft(activeContexts')
       THEN /\ liveTimers' = IF pollInterval # Null
                               THEN liveTimers \ {pollInterval[1]}
                               ELSE liveTimers
            /\ pollInterval' = Null
            /\ lastValue' = Undefined
            /\ lastChange' = Undefined
       ELSE UNCHANGED <<liveTimers, pollInterval, lastValue, lastChange>>
  /\ sessionStart' = IF activeContexts' = <<>> THEN nextFetch ELSE sessionStart
  /\ display' = [display EXCEPT ![c] = Blank]
  /\ UNCHANGED <<handlers, nextFetch>>
  /\ UNCHANGED monthlyOnly
  /\ UNCHANGED notPollVars

(***************************************************************************)
(* onKeyDown up to `await ev.action.setTitle("Updating...")`.  The event   *)
(* carries the key's persisted settings.                                   *)
(***************************************************************************)
onKeyDown(c) ==
  /\ HostEvent
  /\ c \in Range(activeContexts)
  /\ display' = [display EXCEPT ![c] = TitleOnly("updating")]
  /\ handlers' = handlers \cup
       {Handler("keydown", c, SettingsOf(c), 0, FALSE)}
  /\ UNCHANGED <<activeContexts, settingsCache, pollInterval, liveTimers,
                 lastValue, lastChange, cycles, nextFetch, sessionStart>>
  /\ UNCHANGED monthlyOnly
  /\ UNCHANGED notPollVars

(***************************************************************************)
(* onKeyDown after the await: updateMetric(action, settings) without a     *)
(* value starts its own fetch.                                             *)
(***************************************************************************)
onKeyDownResume(h) ==
  /\ h \in handlers
  /\ h.kind = "keydown"
  /\ CanFetch
  /\ handlers' = (handlers \ {h}) \cup
       {Handler("refetch", h.ctx, h.settings, nextFetch, FALSE)}
  /\ nextFetch' = nextFetch + 1
  /\ UNCHANGED <<activeContexts, settingsCache, pollInterval, liveTimers,
                 lastValue, lastChange, cycles, display, events, sessionStart>>
  /\ UNCHANGED monthlyOnly
  /\ UNCHANGED notPollVars

(***************************************************************************)
(* A slip that lets the manual refresh store its reading in the cache.     *)
(***************************************************************************)
updateMetricFetched_caching(h, r) ==
  /\ h \in handlers
  /\ h.kind = "refetch"
  /\ display' = IF Failed(r)
                  THEN [display EXCEPT ![h.ctx] = ErrorShown(h.src)]
                  ELSE updateMetric(h.ctx, h.settings, r.value)
  /\ lastValue' = IF Failed(r) THEN lastValue ELSE Some(r.value)
  /\ lastChange' = IF Failed(r) THEN lastChange ELSE Some(r.change)
  /\ handlers' = handlers \ {h}
  /\ UNCHANGED <<activeContexts, settingsCache, pollInterval, liveTimers,
                 cycles, nextFetch, events, sessionStart>>
  /\ UNCHANGED monthlyOnly
  /\ UNCHANGED notPollVars

(***************************************************************************)
(* updateMetric when its own fetch returns: the error title (sentinel or   *)
(* exception), or the rendered tile.                                       *)
(***************************************************************************)
updateMetricFetched(h, r) ==
  /\ h \in handlers
  /\ h.kind = "refetch"
  /\ display' = IF Failed(r)
                  THEN [display EXCEPT ![h.ctx] = ErrorShown(h.src)]
                  ELSE updateMetric(h.ctx, h.settings, r.value)
  /\ handlers' = handlers \ {h}
  /\ UNCHANGED <<activeContexts, settingsCache, pollInterval, liveTimers,
                 lastValue, lastChange, cycles, nextFetch, events, sessionStart>>
  /\ UNCHANGED monthlyOnly
  /\ UNCHANGED notPollVars

(***************************************************************************)
(* The setInterval callback: updateAllInstances() up to its fetch.         *)
(***************************************************************************)
intervalTick(t) ==
  /\ t \in liveTimers
  /\ CanFetch
  /\ cycles' = cycles \cup {Cycle(nextFetch)}
  /\ nextFetch' = nextFetch + 1
  /\ UNCHANGED <<activeContexts, settingsCache, pollInterval, liveTimers,
                 lastValue, lastChange, handlers, display, events, sessionStart>>
  /\ UNCHANGED monthlyOnly
  /\ UNCHANGED notPollVars

(***************************************************************************)
(* A slip that publishes to the keys registered when the fetch started.    *)
(***************************************************************************)
publishTargets_atFetchStart(cy) ==
  SelectSeq(activeContexts, LAMBDA c : c \notin cy.owed)

(***************************************************************************)
(* The keys the publish loop of a cycle iterates over when it starts: the  *)
(* Map as it is when the fetch has returned.                               *)
(***************************************************************************)
publishTargets(cy) == activeContexts

(***************************************************************************)
(* A slip whose error loop visits the keys without showing them anything.  *)
(***************************************************************************)
LoopStep_silentErrors(old, cy, rest) ==
  /\ cycles' = IF rest = <<>> THEN cycles \ {old}
               ELSE (cycles \ {old}) \cup
                      {[cy EXCEPT !.todo = Tail(rest), !.owed = @ \ {Head(rest)}]}
  /\ display' = IF rest = <<>> \/ cy.phase = "errors" THEN display
                ELSE updateMetric(Head(rest), SettingsOf(Head(rest)), cy.value)

(***************************************************************************)
(* One iteration of a loop of updateAllInstances over the first key of     *)
(* rest: the error loop shows the error, the publish loop calls            *)
(* updateMetric with the key's cached settings; then the loop is suspended *)
(* at the await of the push.  With nothing left to visit the loop ends.    *)
(***************************************************************************)
LoopStep(old, cy, rest) ==
  /\ cycles' = IF rest = <<>> THEN cycles \ {old}
               ELSE (cycles \ {old}) \cup
                      {[cy EXCEPT !.todo = Tail(rest), !.owed = @ \ {Head(rest)}]}
  /\ display' = IF rest = <<>> THEN display
                ELSE IF cy.phase = "errors"
                  THEN [display EXCEPT ![Head(rest)] = ErrorShown(cy.id)]
                  ELSE updateMetric(Head(rest), SettingsOf(Head(rest)), cy.value)

(***************************************************************************)
(* updateAllInstances when its fetch returns: a failure (sentinel or       *)
(* exception) enters the error loop and leaves the cache alone; a reading  *)
(* is cached and the publish loop starts.                                  *)
(***************************************************************************)
updateAllInstancesFetched(cy, r) ==
  /\ cy \in cycles
  /\ cy.phase = "fetch"
  /\ IF Failed(r)
       THEN /\ LoopStep(cy, [cy EXCEPT !.phase = "errors"], publishTargets(cy))
            /\ UNCHANGED <<lastValue, lastChange>>
       ELSE /\ lastValue' = Some(r.value)
            /\ lastChange' = Some(r.change)
            /\ LoopStep(cy, [cy EXCEPT !.phase = "tiles", !.value = r.value],
                     publishTargets(cy))
  /\ UNCHANGED <<activeContexts, settingsCache, pollInterval, liveTimers,
                 handlers, nextFetch, events, sessionStart>>
  /\ UNCHANGED monthlyOnly
  /\ UNCHANGED notPollVars


(***************************************************************************)
(* The next iteration of a suspended loop, or its end.                     *)
(***************************************************************************)
updateAllInstancesNext(cy) ==
  /\ cy \in cycles
  /\ cy.phase \in {"tiles", "errors"}
  /\ LoopStep(cy, cy, cy.todo)
  /\ UNCHANGED <<activeContexts, settingsCache, pollInterval, liveTimers,
                 lastValue, lastChange, handlers, nextFetch, events, sessionStart>>
  /\ UNCHANGED monthlyOnly
  /\ UNCHANGED notPollVars

Next ==
  \/ \E c \in Ctx, s \in Prefs : onWillAppear(c, s)
  \/ \E h \in handlers : onWillAppearResume(h)
  \/ \E c \in Ctx, s \in Prefs : onDidReceiveSettings(c, s)
  \/ \E c \in Ctx : onWillDisappear(c)
  \/ \E c \in Ctx : onKeyDown(c)
  \/ \E h \in handlers : onKeyDownResume(h)
  \/ \E h \in handlers : \E r \in FetchResults(h.src) : updateMetricFetched(h, r)
  \/ \E t \in liveTimers : intervalTick(t)
  \/ \E cy \in cycles : \E r \in FetchResults(cy.id) :
       updateAllInstancesFetched(cy, r)
  \/ \E cy \in cycles : updateAllInstancesNext(cy)

Spec == Init /\ [][Next]_vars

(***************************************************************************)
(* The same program under fair scheduling.  What the event loop, the       *)
(* timers and the network owe: a handler suspended at an await of the SDK  *)
(* resumes, a fetch under way returns, an armed interval timer ticks, a    *)
(* suspended loop goes on.  The events of the host owe nothing.            *)
(***************************************************************************)
HandlerResumes ==
  \/ \E h \in handlers : onWillAppearResume(h)
  \/ \E h \in handlers : onKeyDownResume(h)

FetchCompletes ==
  \/ \E h \in handlers : \E r \in FetchResults(h.src) : updateMetricFetched(h, r)
  \/ \E cy \in cycles : \E r \in FetchResults(cy.id) :
       updateAllInstancesFetched(cy, r)

TimerFires == \E t \in liveTimers : intervalTick(t)

LoopGoesOn == \E cy \in cycles : updateAllInstancesNext(cy)

SpecLive ==
  /\ Init
  /\ [][Next]_vars
  /\ WF_vars(HandlerResumes)
  /\ WF_vars(FetchCompletes)
  /\ WF_vars(TimerFires)
  /\ WF_vars(LoopGoesOn)

(***************************************************************************)
(* Part 2: MonthlyUniqueUsersAction (src/unnamed/part_006, lines 1-238).   *)
(* Same fields as ActiveUsersAction plus the previous-period cache.  The   *)
(* settings of a key are reduced to the showingPrevious flag: "current"    *)
(* (flag false or missing) or "previous" (flag true).  updateMetric takes  *)
(* no value: it reads the cache of the period the settings ask for and     *)
(* fetches that period itself when that cache is undefined.                *)
(***************************************************************************)
MonthlyPrefs == {"current", "previous"}

showingPrevious(s) == s = "previous"

\* `{ ...currentSettings, showingPrevious: !currentSettings.showingPrevious }`
updatedSettings(s) == IF showingPrevious(s) THEN "current" ELSE "previous"

(***************************************************************************)
(* What the Promise.all of getMonthlyUniqueUsersWithChange() and           *)
(* getPreviousMonthlyUniqueUsersWithChange() can answer to fetch number f: *)
(* each of the two is a reading or the failure sentinel {-1, 0}, or the    *)
(* whole await throws.                                                     *)
(***************************************************************************)
MonthlyReadings(f) ==
  {[value |-> f, change |-> ch] : ch \in Changes}
    \cup {[value |-> FailValue, change |-> 0]}

MonthlyFetchResults(f) ==
  {[thrown |-> FALSE, currentData |-> cd, previousData |-> pd] :
     cd \in MonthlyReadings(f), pd \in MonthlyReadings(f)}
    \cup {[thrown |-> TRUE,
           currentData |-> [value |-> FailValue, change |-> 0],
           previousData |-> [value |-> FailValue, change |-> 0]]}

(***************************************************************************)
(* One updateAllInstances() invocation of the monthly action.  Besides the *)
(* phases of Cycle there is "wait": the updateMetric call of the publish   *)
(* loop for key cur, with settings curSettings, awaits its own fetch       *)
(* number sub.                                                             *)
(***************************************************************************)
MonthlyCycle(f) ==
  [id |-> f, phase |-> "fetch", todo |-> <<>>, value |-> 0, owed |-> {},
   cur |-> "-", curSettings |-> NoPref, sub |-> 0]

\* A slip that shows every key the current period.
cachedFor_currentOnly(s, lv, lc, lpv, lpc) ==
  IF lv # Undefined /\ lc # Undefined THEN lv ELSE Undefined

(***************************************************************************)
(* The value updateMetric finds cached for the period of settings s, given *)
(* the four cache fields; Undefined when it has to fetch.                  *)
(***************************************************************************)
cachedFor(s, lv, lc, lpv, lpc) ==
  IF showingPrevious(s)
    THEN IF lpv # Undefined /\ lpc # Undefined THEN lpv ELSE Undefined
    ELSE IF lv # Undefined /\ lc # Undefined THEN lv ELSE Undefined

cachedNow(s) ==
  cachedFor(s, lastValue, lastChange, lastPreviousValue, lastPreviousChange)

(***************************************************************************)
(* The end of updateMetric: the "Error" tile for the sentinel, else the    *)
(* rendered tile, pushed to the key.                                       *)
(***************************************************************************)
Monthly_push(c, s, v, f) ==
  [display EXCEPT ![c] = IF v = FailValue THEN ErrorShown(f)
                         ELSE Tile(v, s, f)]

\* A slip that fetches on every call, cached value or not.
Monthly_updateMetric_alwaysFetch(c, s, rest) ==
  /\ CanFetch
  /\ handlers' = rest \cup {Handler("refetch", c, s, nextFetch, FALSE)}
  /\ nextFetch' = nextFetch + 1
  /\ UNCHANGED display

(***************************************************************************)
(* updateMetric(action, settings) called by an event handler; rest is the  *)
(* set of suspended handlers without the caller.  With a cached value the  *)
(* tile is pushed; without, the call is suspended at its own fetch.        *)
(***************************************************************************)
Monthly_updateMetric(c, s, rest) ==
  IF cachedNow(s) # Undefined
    THEN /\ display' = Monthly_push(c, s, cachedNow(s)[1], cachedNow(s)[1])
         /\ handlers' = rest
         /\ UNCHANGED nextFetch
    ELSE /\ CanFetch
         /\ handlers' = rest \cup {Handler("refetch", c, s, nextFetch, FALSE)}
         /\ nextFetch' = nextFetch + 1
         /\ UNCHANGED display

Monthly_onWillAppear(c, s) ==
  /\ HostEvent
  /\ c \notin Range(activeContexts)
  /\ activeContexts' = Append(activeContexts, c)
  /\ settingsCache' = [settingsCache EXCEPT ![c] = s]
  /\ display' = [display EXCEPT ![c] = TitleOnly("loading")]
  /\ handlers' = handlers \cup
       {Handler("appear", c, s, 0, activeContexts = <<>>)}
  /\ cycles' = {MapSet(cy, c) : cy \in cycles}
  /\ UNCHANGED <<pollInterval, liveTimers, lastValue, lastChange,
                 lastPreviousValue, lastPreviousChange, nextFetch,
                 sessionStart>>
  /\ UNCHANGED notPollVars

Monthly_startPolling ==
  /\ CanFetch
  /\ cycles' = cycles \cup {MonthlyCycle(nextFetch)}
  /\ nextFetch' = nextFetch + 1
  /\ liveTimers' = liveTimers \cup {nextFetch}
  /\ pollInterval' = Some(nextFetch)

Monthly_onWillAppearResume(h) ==
  /\ h \in handlers
  /\ h.kind = "appear"
  /\ IF IsFirstInstance
       THEN /\ Monthly_startPolling
            /\ handlers' = handlers \ {h}
            /\ UNCHANGED display
       ELSE /\ IF HasCache
                 THEN Monthly_updateMetric(h.ctx, h.settings, handlers \ {h})
                 ELSE /\ handlers' = handlers \ {h}
                      /\ UNCHANGED <<display, nextFetch>>
            /\ UNCHANGED <<cycles, liveTimers, pollInterval>>
  /\ UNCHANGED <<activeContexts, settingsCache, lastValue, lastChange,
                 lastPreviousValue, lastPreviousChange, events, sessionStart>>
  /\ UNCHANGED notPollVars

Monthly_onDidReceiveSettings(c, s) ==
  /\ HostEvent
  /\ c \in Range(activeContexts)
  /\ settingsCache' = [settingsCache EXCEPT ![c] = s]
  /\ IF HasCache
       THEN Monthly_updateMetric(c, s, handlers)
       ELSE UNCHANGED <<display, handlers, nextFetch>>
  /\ UNCHANGED <<activeContexts, pollInterval, liveTimers, lastValue,
                 lastChange, lastPreviousValue, lastPreviousChange, cycles,
                 sessionStart>>
  /\ UNCHANGED notPollVars

(***************************************************************************)
(* A slip that leaves the settings of a key that disappears in the cache.  *)
(***************************************************************************)
Monthly_onWillDisappear_keepSettings(c) ==
  /\ HostEvent
  /\ c \in Range(activeContexts)
  /\ activeContexts' = Remove(activeContexts, c)
  /\ cycles' = {MapDelete(cy, c) : cy \in cycles}
  /\ IF NoInstanceLeft(activeContexts')
       THEN /\ liveTimers' = IF pollInterval # Null
                               THEN liveTimers \ {pollInterval[1]}
                               ELSE liveTimers
            /\ pollInterval' = Null
            /\ lastValue' = Undefined
            /\ lastChange' = Undefined
       ELSE UNCHANGED <<liveTimers, pollInterval, lastValue, lastChange>>
  /\ sessionStart' = IF activeContexts' = <<>> THEN nextFetch ELSE sessionStart
  /\ display' = [display EXCEPT ![c] = Blank]
  /\ UNCHANGED <<settingsCache, lastPreviousValue, lastPreviousChange,
                 handlers, nextFetch>>
  /\ UNCHANGED notPollVars

(***************************************************************************)
(* onWillDisappear of the monthly action: with no instance left it stops   *)
(* polling and assigns undefined to lastValue and lastChange, the only two *)
(* fields it assigns.                                                      *)
(***************************************************************************)
Monthly_onWillDisappear(c) ==
  /\ HostEvent
  /\ c \in Range(activeContexts)
  /\ activeContexts' = Remove(activeContexts, c)
  /\ settingsCache' = [settingsCache EXCEPT ![c] = Absent]
  /\ cycles' = {MapDelete(cy, c) : cy \in cycles}
  /\ IF NoInstanceLeft(activeContexts')
       THEN /\ liveTimers' = IF pollInterval # Null
                               THEN liveTimers \ {pollInterval[1]}
                               ELSE liveTimers
            /\ pollInterval' = Null
            /\ lastValue' = Undefined
            /\ lastChange' = Undefined
       ELSE UNCHANGED <<liveTimers, pollInterval, lastValue, lastChange>>
  /\ sessionStart' = IF activeContexts' = <<>> THEN nextFetch ELSE sessionStart
  /\ display' = [display EXCEPT ![c] = Blank]
  /\ UNCHANGED <<lastPreviousValue, lastPreviousChange, handlers, nextFetch>>
  /\ UNCHANGED notPollVars

(***************************************************************************)
(* onKeyDown up to `await ev.action.setSettings(updatedSettings)`: the     *)
(* period flag of the key's cached settings is toggled and stored.         *)
(***************************************************************************)
Monthly_onKeyDown(c) ==
  /\ HostEvent
  /\ c \in Range(activeContexts)
  /\ settingsCache' = [settingsCache EXCEPT ![c] = updatedSettings(SettingsOf(c))]
  /\ handlers' = handlers \cup
       {Handler("keydown", c, updatedSettings(SettingsOf(c)), 0, FALSE)}
  /\ UNCHANGED <<activeContexts, pollInterval, liveTimers, lastValue,
                 lastChange, lastPreviousValue, lastPreviousChange, cycles,
                 display, nextFetch, sessionStart>>
  /\ UNCHANGED notPollVars

\* onKeyDown after the await: updateMetric(ev.action, updatedSettings).
Monthly_onKeyDownResume(h) ==
  /\ h \in handlers
  /\ h.kind = "keydown"
  /\ Monthly_updateMetric(h.ctx, h.settings, handlers \ {h})
  /\ UNCHANGED <<activeContexts, settingsCache, pollInterval, liveTimers,
                 lastValue, lastChange, lastPreviousValue, lastPreviousChange,
                 cycles, events, sessionStart>>
  /\ UNCHANGED notPollVars

(***************************************************************************)
(* updateMetric of an event handler when its own fetch returns.  The       *)
(* result is shown and not cached.                                         *)
(***************************************************************************)
Monthly_updateMetricFetched(h, r) ==
  /\ h \in handlers
  /\ h.kind = "refetch"
  /\ display' = IF r.thrown
                  THEN [display EXCEPT ![h.ctx] = ErrorShown(h.src)]
                  ELSE Monthly_push(h.ctx, h.settings, r.value, h.src)
  /\ handlers' = handlers \ {h}
  /\ UNCHANGED <<activeContexts, settingsCache, pollInterval, liveTimers,
                 lastValue, lastChange, lastPreviousValue, lastPreviousChange,
                 cycles, nextFetch, events, sessionStart>>
  /\ UNCHANGED notPollVars

Monthly_intervalTick(t) ==
  /\ t \in liveTimers
  /\ CanFetch
  /\ cycles' = cycles \cup {MonthlyCycle(nextFetch)}
  /\ nextFetch' = nextFetch + 1
  /\ UNCHANGED <<activeContexts, settingsCache, pollInterval, liveTimers,
                 lastValue, lastChange, lastPreviousValue, lastPreviousChange,
                 handlers, display, events, sessionStart>>
  /\ UNCHANGED notPollVars

(***************************************************************************)
(* One iteration of a loop of the monthly updateAllInstances over the      *)
(* first key of rest.  The error loop pushes the "Error" tile.  The        *)
(* publish loop calls updateMetric(actionInstance, settings) with the      *)
(* key's cached settings: cached is the value that call finds in the cache *)
(* (Undefined: it fetches, and the loop waits for it).                     *)
(***************************************************************************)
Monthly_LoopStep(old, cy, rest, cached) ==
  IF rest = <<>>
    THEN /\ cycles' = cycles \ {old}
         /\ UNCHANGED <<display, nextFetch>>
    ELSE IF cy.phase = "errors"
      THEN /\ cycles' = (cycles \ {old}) \cup
                {[cy EXCEPT !.todo = Tail(rest), !.owed = @ \ {Head(rest)}]}
           /\ display' = [display EXCEPT ![Head(rest)] = ErrorShown(cy.id)]
           /\ UNCHANGED nextFetch
      ELSE IF cached # Undefined
        THEN /\ cycles' = (cycles \ {old}) \cup
                  {[cy EXCEPT !.todo = Tail(rest), !.owed = @ \ {Head(rest)}]}
             /\ display' = Monthly_push(Head(rest), SettingsOf(Head(rest)),
                                        cached[1], cached[1])
             /\ UNCHANGED nextFetch
        ELSE /\ CanFetch
             /\ cycles' = (cycles \ {old}) \cup
                  {[cy EXCEPT !.phase = "wait", !.todo = Tail(rest),
                              !.cur = Head(rest),
                              !.curSettings = SettingsOf(Head(rest)),
                              !.sub = nextFetch]}
             /\ nextFetch' = nextFetch + 1
             /\ UNCHANGED display

(***************************************************************************)
(* The monthly updateAllInstances when its Promise.all returns: an         *)
(* exception or a failed current-period reading enters the error loop; a   *)
(* current-period reading stores all four cache fields (the previous       *)
(* period's as they came, sentinel included) and starts the publish loop.  *)
(***************************************************************************)
Monthly_updateAllInstancesFetched(cy, r) ==
  /\ cy \in cycles
  /\ cy.phase = "fetch"
  /\ IF r.thrown \/ r.currentData.value = FailValue
       THEN /\ Monthly_LoopStep(cy, [cy EXCEPT !.phase = "errors"],
                                activeContexts, Undefined)
            /\ UNCHANGED <<lastValue, lastChange, lastPreviousValue,
                           lastPreviousChange>>
       ELSE /\ lastValue' = Some(r.currentData.value)
            /\ lastChange' = Some(r.currentData.change)
            /\ lastPreviousValue' = Some(r.previousData.value)
            /\ lastPreviousChange' = Some(r.previousData.change)
            /\ Monthly_LoopStep(cy,
                 [cy EXCEPT !.phase = "tiles", !.value = r.currentData.value],
                 activeContexts,
                 IF activeContexts = <<>> THEN Undefined
                 ELSE cachedFor(SettingsOf(Head(activeContexts)),
                                Some(r.currentData.value),
                                Some(r.currentData.change),
                                Some(r.previousData.value),
                                Some(r.previousData.change)))
  /\ UNCHANGED <<activeContexts, settingsCache, pollInterval, liveTimers,
                 handlers, events, sessionStart>>
  /\ UNCHANGED notPollVars

\* The next iteration of a suspended loop of the monthly action, or its end.
Monthly_updateAllInstancesNext(cy) ==
  /\ cy \in cycles
  /\ cy.phase \in {"tiles", "errors"}
  /\ Monthly_LoopStep(cy, cy, cy.todo,
       IF cy.todo = <<>> THEN Undefined
       ELSE cachedNow(SettingsOf(Head(cy.todo))))
  /\ UNCHANGED <<activeContexts, settingsCache, pollInterval, liveTimers,
                 lastValue, lastChange, lastPreviousValue, lastPreviousChange,
                 handlers, events, sessionStart>>
  /\ UNCHANGED notPollVars

(***************************************************************************)
(* The fetch of an updateMetric call of the publish loop returns: its      *)
(* result is pushed to the key and the loop is suspended at that push.     *)
(***************************************************************************)
Monthly_updateAllInstancesResumed(cy, r) ==
  /\ cy \in cycles
  /\ cy.phase = "wait"
  /\ display' = IF r.thrown
                  THEN [display EXCEPT ![cy.cur] = ErrorShown(cy.sub)]
                  ELSE Monthly_push(cy.cur, cy.curSettings, r.value, cy.sub)
  /\ cycles' = (cycles \ {cy}) \cup
       {[cy EXCEPT !.phase = "tiles", !.owed = @ \ {cy.cur}, !.cur = "-",
                   !.curSettings = NoPref, !.sub = 0]}
  /\ UNCHANGED <<activeContexts, settingsCache, pollInterval, liveTimers,
                 lastValue, lastChange, lastPreviousValue, lastPreviousChange,
                 handlers, nextFetch, events, sessionStart>>
  /\ UNCHANGED notPollVars

MonthlyNext ==
  \/ \E c \in Ctx, s \in MonthlyPrefs : Monthly_onWillAppear(c, s)
  \/ \E h \in handlers : Monthly_onWillAppearResume(h)
  \/ \E c \in Ctx, s \in MonthlyPrefs : Monthly_onDidReceiveSettings(c, s)
  \/ \E c \in Ctx : Monthly_onWillDisappear(c)
  \/ \E c \in Ctx : Monthly_onKeyDown(c)
  \/ \E h \in handlers : Monthly_onKeyDownResume(h)
  \/ \E h \in handlers : \E r \in FetchResults(h.src) :
       Monthly_updateMetricFetched(h, r)
  \/ \E t \in liveTimers : Monthly_intervalTick(t)
  \/ \E cy \in cycles : \E r \in MonthlyFetchResults(cy.id) :
       Monthly_updateAllInstancesFetched(cy, r)
  \/ \E cy \in cycles : Monthly_updateAllInstancesNext(cy)
  \/ \E cy \in cycles : \E r \in FetchResults(cy.sub) :
       Monthly_updateAllInstancesResumed(cy, r)

SpecMonthly == Init /\ [][MonthlyNext]_vars

(***************************************************************************)
(* Part 3: the change tracking of AnalyticsService.  Two versions of the   *)
(* service are in the repository: src/src/services/analytics.ts compares   *)
(* active users with a snapshot kept for 30 minutes ("fixed window") and   *)
(* reads the other metrics as two date ranges of one report ("dual         *)
(* window"); src/unnamed/part_003 compares every metric with the value of  *)
(* the previous poll ("rolling").  Each get...WithChange awaits its fetch  *)
(* first and runs without another await from there, Date.now() included:   *)
(* one action per call, taken when the fetch returns.                      *)
(*                                                                         *)
(* A percentage is the exact rational number, in lowest terms; the         *)
(* rounding of the floating-point division is not modelled.                *)
(***************************************************************************)
Abs(n) == IF n < 0 THEN -n ELSE n

RECURSIVE GCD(_, _)
GCD(a, b) == IF b = 0 THEN a ELSE GCD(b, a % b)

\* The fraction n / d (d # 0) in lowest terms, with a positive denominator.
Frac(n, d) ==
  [num |-> (IF d < 0 THEN -n ELSE n) \div GCD(Abs(n), Abs(d)),
   den |-> Abs(d) \div GCD(Abs(n), Abs(d))]

\* A slip that reports a rise from nothing as +100%.
percentChange_fullRise(current, previous) ==
  IF previous = 0 THEN Frac(100, 1)
  ELSE Frac((current - previous) * 100, previous)

\* `previous === 0 ? 0 : ((current - previous) / previous) * 100`
percentChange(current, previous) ==
  IF previous = 0 THEN Frac(0, 1)
  ELSE Frac((current - previous) * 100, previous)

(***************************************************************************)
(* What getActiveUsers() / getPageviews() can answer: a count, the error   *)
(* indicator -1 (the report failed), or an exception (initialize() is      *)
(* outside the try and rethrows).                                          *)
(***************************************************************************)
CountResults ==
  {[thrown |-> FALSE, value |-> v] : v \in Values \cup {FailValue}}
    \cup {[thrown |-> TRUE, value |-> FailValue]}

(***************************************************************************)
(* What the two-range report of getDailyPageviewsWithChange can answer:    *)
(* the counts of the two ranges, a failure of the report (caught), or an   *)
(* exception of initialize().                                              *)
(***************************************************************************)
ReportResults ==
  {[thrown |-> FALSE, failed |-> FALSE, today |-> a, yesterday |-> b] :
     a \in Values, b \in Values}
    \cup {[thrown |-> FALSE, failed |-> TRUE, today |-> 0, yesterday |-> 0],
          [thrown |-> TRUE, failed |-> TRUE, today |-> 0, yesterday |-> 0]}

(***************************************************************************)
(* The outcome of a call: the {value, change} it resolved with, or a       *)
(* rejection (no reading).  by names the call.                             *)
(***************************************************************************)
Resolved(by, v, ch) == [by |-> by, yielded |-> TRUE, value |-> v, change |-> ch]
Rejected(by) ==
  [by |-> by, yielded |-> FALSE, value |-> 0, change |-> Frac(0, 1)]

Call == calls < MaxCalls /\ calls' = calls + 1

\* A slip that takes the error indicator for a count.
fetchFailed_never(current) == FALSE

\* `if (current === -1)`
fetchFailed(current) == current = FailValue

\* A slip that rolls the snapshot only after the window boundary.
windowElapsed_after(t, timestamp) == t - timestamp > thirtyMinutesAgo

\* `now - this.activeUsersSnapshot.timestamp >= thirtyMinutesAgo`
windowElapsed(t, timestamp) == t - timestamp >= thirtyMinutesAgo

\* A slip that moves the timestamp of the snapshot and keeps its value.
newSnapshot_timestampOnly(current, t) ==
  [value |-> activeUsersSnapshot.value, timestamp |-> t]

\* `this.activeUsersSnapshot = { value: current, timestamp: now }`
newSnapshot(current, t) == [value |-> current, timestamp |-> t]

(***************************************************************************)
(* getActiveUsersWithChange of src/src/services/analytics.ts, from the     *)
(* return of getActiveUsers() on.                                          *)
(***************************************************************************)
getActiveUsersWithChange(r) ==
  /\ Call
  /\ IF r.thrown
       THEN /\ reading' = Rejected("fixed")
            /\ UNCHANGED <<activeUsersSnapshot, lastOk>>
       ELSE IF fetchFailed(r.value)
         THEN /\ reading' = Resolved("fixed", FailValue, Frac(0, 1))
              /\ UNCHANGED <<activeUsersSnapshot, lastOk>>
         ELSE /\ lastOk' = [lastOk EXCEPT !["fixed"] = Some(r.value)]
              /\ IF windowElapsed(now, activeUsersSnapshot.timestamp)
                   THEN /\ activeUsersSnapshot' = newSnapshot(r.value, now)
                        /\ reading' =
                             IF activeUsersSnapshot.timestamp = 0
                               THEN Resolved("fixed", r.value, Frac(0, 1))
                               ELSE Resolved("fixed", r.value,
                                      percentChange(r.value,
                                                    activeUsersSnapshot.value))
                   ELSE /\ reading' = Resolved("fixed", r.value,
                               percentChange(r.value, activeUsersSnapshot.value))
                        /\ UNCHANGED activeUsersSnapshot
  /\ UNCHANGED <<previousValues, now, report>>
  /\ UNCHANGED notTrackerVars

\* A slip that keeps the first value as the comparison point for good.
rolledValues_keepFirst(metric, current) ==
  IF previousValues[metric] = 0
    THEN [previousValues EXCEPT ![metric] = current]
    ELSE previousValues

\* `this.previousValues.activeUsers = current` (and the two like it)
rolledValues(metric, current) == [previousValues EXCEPT ![metric] = current]

(***************************************************************************)
(* getActiveUsersWithChange, getDailyPageviewsWithChange and               *)
(* getWeeklyPageviewsWithChange of src/unnamed/part_003, the same code on  *)
(* the three fields of previousValues, from the return of the fetch on.    *)
(***************************************************************************)
Rolling_getWithChange(metric, r) ==
  /\ Call
  /\ IF r.thrown
       THEN /\ reading' = Rejected(metric)
            /\ UNCHANGED <<previousValues, lastOk>>
       ELSE IF fetchFailed(r.value)
         THEN /\ reading' = Resolved(metric, FailValue, Frac(0, 1))
              /\ UNCHANGED <<previousValues, lastOk>>
         ELSE /\ reading' = Resolved(metric, r.value,
                              percentChange(r.value, previousValues[metric]))
              /\ previousValues' = rolledValues(metric, r.value)
              /\ lastOk' = [lastOk EXCEPT ![metric] = Some(r.value)]
  /\ UNCHANGED <<activeUsersSnapshot, now, report>>
  /\ UNCHANGED notTrackerVars

\* A slip that compares with the stored previous value of the metric.
yesterday_fromBaseline(r) == previousValues["dailyPageviews"]

\* `const yesterday = parseInt(yesterdayRow?.metricValues?.[0]?.value || "0")`
yesterday(r) == r.yesterday

(***************************************************************************)
(* getDailyPageviewsWithChange of src/src/services/analytics.ts: today     *)
(* against yesterday, both read from the report; nothing is stored.        *)
(* getWeeklyPageviewsWithChange, getMonthlyUniqueUsersWithChange and their *)
(* getPrevious... variants are the same code on other date ranges.         *)
(***************************************************************************)
getDailyPageviewsWithChange(r) ==
  /\ Call
  /\ IF r.thrown
       THEN /\ reading' = Rejected("dual")
            /\ UNCHANGED <<lastOk, report>>
       ELSE IF r.failed
         THEN /\ reading' = Resolved("dual", FailValue, Frac(0, 1))
              /\ UNCHANGED <<lastOk, report>>
         ELSE /\ report' = [today |-> r.today, yesterday |-> r.yesterday]
              /\ reading' = Resolved("dual", r.today,
                              percentChange(r.today, yesterday(r)))
              /\ lastOk' = [lastOk EXCEPT !["dual"] = Some(r.today)]
  /\ UNCHANGED <<activeUsersSnapshot, previousValues, now>>
  /\ UNCHANGED notTrackerVars

\* Time passes between two calls.
clockAdvances ==
  /\ now < thirtyMinutesAgo + MaxElapsed
  /\ now' = now + 1
  /\ UNCHANGED <<activeUsersSnapshot, previousValues, reading, lastOk, calls,
                 report>>
  /\ UNCHANGED notTrackerVars

TrackerNext ==
  \/ \E r \in CountResults : getActiveUsersWithChange(r)
  \/ \E m \in RollingMetrics : \E r \in CountResults :
       Rolling_getWithChange(m, r)
  \/ \E r \in ReportResults : getDailyPageviewsWithChange(r)
  \/ clockAdvances

SpecTracker == Init /\ [][TrackerNext]_vars

(***************************************************************************)
(* Part 5: ActiveUsersAction and DailyPageviewsAction (src/unnamed/        *)
(* part_004) side by side, as the plugin registers them.  The two classes  *)
(* have the same handlers; each is a singleton with its own fields and its *)
(* own AnalyticsService (rolling version, src/unnamed/part_003).  A        *)
(* handler is a function from the fields of its instance to their new      *)
(* values; the keys of the two actions have their own ids per action.      *)
(***************************************************************************)

\* A slip that keeps the fields at module level, shared by the classes.
Scoped_moduleLevel(m, st) == [o \in MetricKey |-> st]

\* `private` instance fields: a handler of m writes the fields of m.
Scoped(m, st) == [metrics EXCEPT ![m] = st]

\* A step of action class m that takes ev host events and starts ft fetches.
Acts(m, st, ev, ft) ==
  /\ ev = 1 => scope.events < MaxEvents
  /\ ft = 1 => scope.nextFetch <= MaxFetch
  /\ metrics' = Scoped(m, st)
  /\ scope' = [events |-> scope.events + ev,
               nextFetch |-> scope.nextFetch + ft, metric |-> m]
  /\ UNCHANGED <<pollVars, trackerVars, utilVars, inspectorVars>>

Action_startPolling(st, f) ==
  [st EXCEPT !.cycles = @ \cup {Cycle(f)},
             !.liveTimers = @ \cup {f},
             !.pollInterval = Some(f)]

Action_HasCache(st) == st.lastValue # Undefined /\ st.lastChange # Undefined

Action_SettingsOf(st, c) ==
  IF st.settingsCache[c] = Absent THEN NoPref ELSE st.settingsCache[c]

\* updateMetric with a value: the rendered tile is pushed to the key.
Action_updateMetric(st, c, s, v) == [st EXCEPT !.display[c] = Tile(v, s, v)]

Action_onWillAppear(m, c, s) ==
  LET st == metrics[m] IN
  /\ c \notin Range(st.activeContexts)
  /\ Acts(m, [st EXCEPT !.activeContexts = Append(@, c),
                        !.settingsCache[c] = s,
                        !.display[c] = TitleOnly("loading"),
                        !.handlers = @ \cup
                           {Handler("appear", c, s, 0, st.activeContexts = <<>>)},
                        !.cycles = {MapSet(cy, c) : cy \in @}],
          1, 0)

Action_onWillAppearResume(m, h) ==
  LET st == metrics[m]
      rest == [st EXCEPT !.handlers = @ \ {h}]
  IN
  /\ h \in st.handlers
  /\ h.kind = "appear"
  /\ IF Len(st.activeContexts) = 1
       THEN Acts(m, Action_startPolling(rest, scope.nextFetch), 0, 1)
       ELSE IF Action_HasCache(st)
         THEN Acts(m, Action_updateMetric(rest, h.ctx, h.settings,
                                          st.lastValue[1]), 0, 0)
         ELSE Acts(m, rest, 0, 0)

Action_onDidReceiveSettings(m, c, s) ==
  LET st == metrics[m]
      stored == [st EXCEPT !.settingsCache[c] = s]
  IN
  /\ c \in Range(st.activeContexts)
  /\ IF Action_HasCache(st)
       THEN Acts(m, Action_updateMetric(stored, c, s, st.lastValue[1]), 1, 0)
       ELSE Acts(m, stored, 1, 0)

\* A slip that drops the comparison value of the service with the cache.
Action_stopPolling_dropBaseline(st) ==
  [st EXCEPT !.liveTimers = IF st.pollInterval # Null
                              THEN @ \ {st.pollInterval[1]} ELSE @,
             !.pollInterval = Null,
             !.lastValue = Undefined,
             !.lastChange = Undefined,
             !.previous = 0,
             !.stops = IF st.pollInterval # Null THEN @ + 1 ELSE @]

\* stopPolling, and the cache dropped with it.
Action_stopPolling(st) ==
  [st EXCEPT !.liveTimers = IF st.pollInterval # Null
                              THEN @ \ {st.pollInterval[1]} ELSE @,
             !.pollInterval = Null,
             !.lastValue = Undefined,
             !.lastChange = Undefined,
             !.stops = IF st.pollInterval # Null THEN @ + 1 ELSE @]

Action_onWillDisappear(m, c) ==
  LET st == metrics[m]
      gone == [st EXCEPT !.activeContexts = Remove(@, c),
                         !.settingsCache[c] = Absent,
                         !.display[c] = Blank,
                         !.cycles = {MapDelete(cy, c) : cy \in @}]
  IN
  /\ c \in Range(st.activeContexts)
  /\ IF Len(gone.activeContexts) = 0
       THEN Acts(m, Action_stopPolling(gone), 1, 0)
       ELSE Acts(m, gone, 1, 0)

\* The settings onKeyDown hands to updateMetric: ActiveUsersAction passes
\* ev.payload.settings, DailyPageviewsAction calls updateMetric(ev.action)
\* and so renders with the defaults.
Action_keyDownSettings(m, st, c) ==
  IF m = "active-users" THEN Action_SettingsOf(st, c) ELSE NoPref

Action_onKeyDown(m, c) ==
  LET st == metrics[m] IN
  /\ c \in Range(st.activeContexts)
  /\ Acts(m, [st EXCEPT !.display[c] = TitleOnly("updating"),
                        !.handlers = @ \cup
                           {Handler("keydown", c,
                                    Action_keyDownSettings(m, st, c),
                                    0, FALSE)}],
          1, 0)

Action_onKeyDownResume(m, h) ==
  LET st == metrics[m] IN
  /\ h \in st.handlers
  /\ h.kind = "keydown"
  /\ Acts(m, [st EXCEPT !.handlers = (@ \ {h}) \cup
                           {Handler("refetch", h.ctx, h.settings,
                                    scope.nextFetch, FALSE)}],
          0, 1)

(***************************************************************************)
(* What the service of action class m compares with after its              *)
(* get...WithChange call got r.  A failure keeps it.  The service of       *)
(* DailyPageviewsAction (rolling, src/unnamed/part_003) takes every count; *)
(* the service of ActiveUsersAction (30-minute snapshot,                   *)
(* src/src/services/analytics.ts) takes it on the first run, which is the  *)
(* only time the value is still 0 here as the counts are not, and when the *)
(* window has elapsed since the snapshot, which is an input of the step.   *)
(***************************************************************************)
Action_baseline(m, st, r, elapsed) ==
  IF r.thrown \/ r.value = FailValue THEN st.previous
  ELSE IF m = "active-users" /\ st.previous # 0 /\ ~elapsed THEN st.previous
  ELSE r.value

\* The change the call resolves with: the count against the comparison
\* value as it was before the call (0 on the first run).
Action_change(st, r) ==
  IF r.thrown \/ r.value = FailValue THEN Frac(0, 1)
  ELSE percentChange(r.value, st.previous)

Action_rolled(m, st, r, elapsed) ==
  [st EXCEPT !.previous = Action_baseline(m, st, r, elapsed)]

\* updateMetric when its own fetch returns.
Action_updateMetricFetched(m, h, r, elapsed) ==
  LET st == metrics[m]
      rest == [Action_rolled(m, st, r, elapsed) EXCEPT !.handlers = @ \ {h}]
  IN
  /\ h \in st.handlers
  /\ h.kind = "refetch"
  /\ IF Failed(r)
       THEN Acts(m, [rest EXCEPT !.display[h.ctx] = ErrorShown(h.src)], 0, 0)
       ELSE Acts(m, Action_updateMetric(rest, h.ctx, h.settings, r.value),
                 0, 0)

Action_intervalTick(m, t) ==
  LET st == metrics[m] IN
  /\ t \in st.liveTimers
  /\ Acts(m, [st EXCEPT !.cycles = @ \cup {Cycle(scope.nextFetch)}], 0, 1)

\* One iteration of a loop of updateAllInstances, or its end.
Action_LoopStep(st, old, cy, rest) ==
  IF rest = <<>>
    THEN [st EXCEPT !.cycles = @ \ {old}]
    ELSE [st EXCEPT
            !.cycles = (@ \ {old}) \cup
                         {[cy EXCEPT !.todo = Tail(rest),
                                     !.owed = @ \ {Head(rest)}]},
            !.display[Head(rest)] =
               IF cy.phase = "errors" THEN ErrorShown(cy.id)
               ELSE Tile(cy.value, Action_SettingsOf(st, Head(rest)),
                         cy.value)]

Action_updateAllInstancesFetched(m, cy, r, elapsed) ==
  LET st == Action_rolled(m, metrics[m], r, elapsed) IN
  /\ cy \in st.cycles
  /\ cy.phase = "fetch"
  /\ IF Failed(r)
       THEN Acts(m, Action_LoopStep(st, cy, [cy EXCEPT !.phase = "errors"],
                                    st.activeContexts), 0, 0)
       ELSE Acts(m, Action_LoopStep(
                      [st EXCEPT !.lastValue = Some(r.value),
                                 !.lastChange =
                                    Some(Action_change(metrics[m], r))],
                      cy, [cy EXCEPT !.phase = "tiles", !.value = r.value],
                      st.activeContexts), 0, 0)

Action_updateAllInstancesNext(m, cy) ==
  LET st == metrics[m] IN
  /\ cy \in st.cycles
  /\ cy.phase \in {"tiles", "errors"}
  /\ Acts(m, Action_LoopStep(st, cy, cy, cy.todo), 0, 0)

ScopeNext ==
  \/ \E m \in MetricKey, c \in Ctx, s \in Prefs : Action_onWillAppear(m, c, s)
  \/ \E m \in MetricKey : \E h \in metrics[m].handlers :
       Action_onWillAppearResume(m, h)
  \/ \E m \in MetricKey, c \in Ctx, s \in Prefs :
       Action_onDidReceiveSettings(m, c, s)
  \/ \E m \in MetricKey, c \in Ctx : Action_onWillDisappear(m, c)
  \/ \E m \in MetricKey, c \in Ctx : Action_onKeyDown(m, c)
  \/ \E m \in MetricKey : \E h \in metrics[m].handlers :
       Action_onKeyDownResume(m, h)
  \/ \E m \in MetricKey : \E h \in metrics[m].handlers :
       \E r \in FetchResults(h.src) : \E elapsed \in BOOLEAN :
         Action_updateMetricFetched(m, h, r, elapsed)
  \/ \E m \in MetricKey : \E t \in metrics[m].liveTimers :
       Action_intervalTick(m, t)
  \/ \E m \in MetricKey : \E cy \in metrics[m].cycles :
       \E r \in FetchResults(cy.id) : \E elapsed \in BOOLEAN :
         Action_updateAllInstancesFetched(m, cy, r, elapsed)
  \/ \E m \in MetricKey : \E cy \in metrics[m].cycles :
       Action_updateAllInstancesNext(m, cy)

SpecScope == Init /\ [][ScopeNext]_vars

(***************************************************************************)
(* Part 6: the property inspector (src/unnamed/part_007).  Its socket is   *)
(* open.  Time is counted in units of 100 ms; a timeout that is due runs   *)
(* before anything else that happens at that time.                         *)
(***************************************************************************)
MaxClock == 6
MaxSaves == 3
Debounce == 3

\* `{ ...a, ...b }`
Spread(a, b) == [k \in InspectorKeys |-> IF b[k] # Unset THEN b[k] ELSE a[k]]

\* What a listener passes to saveSettings: one field and its new value.
Edits ==
  {[k \in InspectorKeys |-> IF k = f THEN v ELSE Unset] :
     f \in InspectorKeys, v \in InspectorValues}

\* No timeout is due: the event loop is free for an event.
Idle == \A due \in timeouts : due > clock

\* `if (saveSettingsTimer) clearTimeout(saveSettingsTimer)`
clearTimeout(handle) ==
  IF handle = Null THEN timeouts ELSE timeouts \ {handle[1]}

(***************************************************************************)
(* saveSettings(settings): the cache takes the edit at once, the pending   *)
(* timeout is cleared and a new one is set 300 ms from now.                *)
(***************************************************************************)
saveSettings(settings) ==
  /\ Idle
  /\ burst.calls < MaxSaves
  /\ clock + Debounce <= MaxClock
  /\ inspectorCache' = Spread(inspectorCache, settings)
  /\ timeouts' = clearTimeout(saveSettingsTimer) \cup {clock + Debounce}
  /\ saveSettingsTimer' = Some(clock + Debounce)
  /\ burst' = IF timeouts = {}
                THEN [base |-> inspectorCache, edits |-> settings,
                      calls |-> burst.calls + 1,
                      started |-> burst.started + 1]
                ELSE [burst EXCEPT !.edits = Spread(@, settings),
                                   !.calls = @ + 1]
  /\ UNCHANGED <<clock, sent, hostSettings>>
  /\ UNCHANGED <<pollVars, trackerVars, utilVars, metrics, scope>>

(***************************************************************************)
(* The callback of the timeout: a setSettings message with the cache as it *)
(* is now; the host stores the payload.                                    *)
(***************************************************************************)
saveSettingsTimeout(due) ==
  /\ due \in timeouts
  /\ due = clock
  /\ timeouts' = timeouts \ {due}
  /\ sent' = Append(sent, [at |-> clock, payload |-> inspectorCache])
  /\ hostSettings' = inspectorCache
  /\ UNCHANGED <<inspectorCache, saveSettingsTimer, clock, burst>>
  /\ UNCHANGED <<pollVars, trackerVars, utilVars, metrics, scope>>

(***************************************************************************)
(* websocket.onmessage with a didReceiveSettings event (the answer to      *)
(* getSettings, or the plugin has set the settings): the cache becomes the *)
(* payload, which is what the host holds.                                  *)
(***************************************************************************)
onmessage ==
  /\ Idle
  /\ inspectorCache' = hostSettings
  /\ UNCHANGED <<saveSettingsTimer, timeouts, clock, sent, hostSettings, burst>>
  /\ UNCHANGED <<pollVars, trackerVars, utilVars, metrics, scope>>

\* 100 ms pass.
clockTicks ==
  /\ Idle
  /\ clock < MaxClock
  /\ clock' = clock + 1
  /\ UNCHANGED <<inspectorCache, saveSettingsTimer, timeouts, sent,
                 hostSettings, burst>>
  /\ UNCHANGED <<pollVars, trackerVars, utilVars, metrics, scope>>

InspectorNext ==
  \/ \E settings \in Edits : saveSettings(settings)
  \/ \E due \in timeouts : saveSettingsTimeout(due)
  \/ onmessage
  \/ clockTicks

SpecInspector == Init /\ [][InspectorNext]_vars

(***************************************************************************)
(* Part 4: the helper functions loadConfig (src/src/services/config.ts)    *)
(* and renderTile (src/unnamed/part_000).  Both are functions of their     *)
(* input; the initial states draw the input and one action applies each.   *)
(***************************************************************************)
PollIntervals == {0, 1000, 5000, 10000, 60000}

\* What config.json can hold: each field absent or present.
Configs ==
  [gaPropertyId : {Undefined, Some(""), Some("123456789")},
   pollIntervalMs : {Undefined} \cup {Some(n) : n \in PollIntervals},
   logLevel : {Undefined, Some("debug")}]

\* JavaScript's `!x` for an optional string (empty is "") or an optional
\* number (empty is 0).
Falsy(x, empty) == x = Undefined \/ x = Some(empty)

\* `x || d`
OrElse(x, empty, d) == IF Falsy(x, empty) THEN d ELSE x[1]

DefaultPollIntervalMs == 10000

\* `config.pollIntervalMs = config.pollIntervalMs || 10000`
pollIntervalMsOf(cfg) == OrElse(cfg.pollIntervalMs, 0, DefaultPollIntervalMs)

(***************************************************************************)
(* loadConfig(): throws without gaPropertyId (the catch rethrows as a      *)
(* configuration error), else returns the parsed object with the defaults  *)
(* filled in.                                                              *)
(***************************************************************************)
loadConfigResult(cfg) ==
  IF Falsy(cfg.gaPropertyId, "")
    THEN [NotLoaded EXCEPT !.done = TRUE, !.thrown = TRUE]
    ELSE [done |-> TRUE, thrown |-> FALSE,
          gaPropertyId |-> cfg.gaPropertyId,
          pollIntervalMs |-> pollIntervalMsOf(cfg),
          logLevel |-> Some(OrElse(cfg.logLevel, "", "info"))]

loadConfig ==
  /\ ~loaded.done
  /\ loaded' = loadConfigResult(config)
  /\ UNCHANGED <<config, data, svg>>
  /\ UNCHANGED <<pollVars, trackerVars, metrics, scope, inspectorVars>>

\* The tiles renderTile is called with: a change in percent or none, and
\* the optional height of the percentage line.
PercentageChanges == {-15, -1, 0, 1, 15}
TileDatas ==
  [percentageChange : {Undefined} \cup {Some(n) : n \in PercentageChanges},
   percentageY : {Undefined, Some(110), Some(124)}]

\* `percentageChange !== undefined && percentageChange >= 0`
isPositive(percentageChange) ==
  percentageChange # Undefined /\ percentageChange[1] >= 0

\* The length of n.toFixed(1) without its sign, for a whole number n.
FixedLength(n) == (IF Abs(n) < 10 THEN 1 ELSE IF Abs(n) < 100 THEN 2 ELSE 3) + 2

\* The length of percentageText: "" without a change, else the sign ("+"
\* from the template or "-" from toFixed), the digits and "%".
percentageTextLength(percentageChange) ==
  IF percentageChange = Undefined THEN 0
  ELSE 1 + FixedLength(percentageChange[1]) + 1

\* The corners of upArrow and downArrow after the three replace() calls,
\* which rewrite the x coordinates 72, 76 and 68 to 0, 4 and -4.
upArrow == {<<0, 114>>, <<4, 118>>, <<-4, 118>>}
downArrow == {<<0, 118>>, <<4, 114>>, <<-4, 114>>}

\* `<g transform="translate(tx, ty)">` around a path.
translate(points, tx, ty) == {<<p[1] + tx, p[2] + ty>> : p \in points}

\* The arrow element of the SVG: none when percentageText is empty or the
\* change is 0, else the up or the down path inside its translated group.
arrowOf(percentageChange) ==
  IF percentageChange = Undefined \/ percentageChange = Some(0) THEN NoArrow
  ELSE [dir |-> IF isPositive(percentageChange) THEN "up" ELSE "down",
        points |-> translate(IF isPositive(percentageChange)
                               THEN upArrow ELSE downArrow,
                             IF percentageTextLength(percentageChange) > 5
                               THEN 100 ELSE 95,
                             124)]

\* renderTile(data), as far as the percentage line goes.
renderTileResult(d) ==
  [done |-> TRUE,
   textLength |-> percentageTextLength(d.percentageChange),
   textY |-> OrElse(d.percentageY, 0, 144 - 20),
   arrow |-> arrowOf(d.percentageChange)]

renderTile ==
  /\ ~svg.done
  /\ svg' = renderTileResult(data)
  /\ UNCHANGED <<config, loaded, data>>
  /\ UNCHANGED <<pollVars, trackerVars, metrics, scope, inspectorVars>>

\* `<svg width="144" height="144">`: what lies outside is not drawn.
onCanvas(p) == p[1] \in 0..144 /\ p[2] \in 0..144

InitUtil == Constructed /\ \E cfg \in Configs : \E d \in TileDatas : NotCalled(cfg, d)

UtilNext == loadConfig \/ renderTile

SpecUtil == InitUtil /\ [][UtilNext]_vars

(***************************************************************************)
(*                              The claims                                 *)
(***************************************************************************)
Registered == Range(activeContexts)
Appearing == {h \in handlers : h.kind = "appear"}
Fetching == {cy \in cycles : cy.phase = "fetch"}
Publishing == {cy \in cycles : cy.phase # "fetch"}

\* The handler h ends in this step (it resumes after its await and returns).
Returns(h) == h \in handlers /\ h \notin handlers'

(***************************************************************************)
(* C1: the timer handle is armed iff the observer set is non-empty.  The   *)
(* statement is read at the states where no onWillAppear handler is still  *)
(* suspended at its first await, the only reading the code could satisfy.  *)
(***************************************************************************)
C1_TimerIffObservers ==
  Appearing = {} => ((pollInterval # Null) <=> (activeContexts # <<>>))

(***************************************************************************)
(* C2: at no time are two fetch cycles of the metric in flight.            *)
(***************************************************************************)
C2_OneFetchInFlight == Cardinality(Fetching) <= 1

(***************************************************************************)
(* C3: the cache stays absent while the observer set is empty, also when   *)
(* a fetch that was in flight at the last unsubscribe completes.           *)
(***************************************************************************)
C3_NoCacheWithoutObservers ==
  activeContexts = <<>> => (lastValue = Undefined /\ lastChange = Undefined)

(***************************************************************************)
(* C4: the cached reading is cleared exactly when the observer set becomes *)
(* empty: every step that empties the registry leaves the cache absent,    *)
(* and every step that takes the cache from present to absent is a step    *)
(* that empties the registry.                                              *)
(***************************************************************************)
C4_ClearedExactlyOnEmpty ==
  [][/\ (activeContexts # <<>> /\ activeContexts' = <<>>)
          => (lastValue' = Undefined /\ lastChange' = Undefined)
     /\ ((lastValue # Undefined /\ lastValue' = Undefined)
           \/ (lastChange # Undefined /\ lastChange' = Undefined))
          => (activeContexts # <<>> /\ activeContexts' = <<>>)]_vars

\* The last observer has gone while the cycle that had cached a reading is
\* still suspended in its publish loop: the cache is absent again.
C4_Witness ==
  /\ activeContexts = <<>>
  /\ lastValue = Undefined
  /\ lastChange = Undefined
  /\ \E cy \in cycles : cy.phase = "tiles"

(***************************************************************************)
(* C5: in the monthly dual-window action, the unsubscribe of the last      *)
(* observer discards the whole cached state: after the step that empties   *)
(* the registry neither the current-period reading nor the previous-period *)
(* reading is cached.                                                      *)
(***************************************************************************)
C5_LastUnsubscribeDiscardsBoth ==
  [][(activeContexts # <<>> /\ activeContexts' = <<>>)
       => /\ lastValue' = Undefined
          /\ lastChange' = Undefined
          /\ lastPreviousValue' = Undefined
          /\ lastPreviousChange' = Undefined]_vars

(***************************************************************************)
(* C6: every reading shown to a subscribed observer comes from a fetch     *)
(* started in the current polling session, never from one started before   *)
(* the registry last became empty.                                         *)
(***************************************************************************)
C6_NoLeakAcrossSessions ==
  \A c \in Registered :
    display[c].kind = "tile" => display[c].src >= sessionStart

(***************************************************************************)
(* C7: when the subscribe that follows the last unsubscribe has run, a new *)
(* fetch is started by it and its observer has been shown no value of a    *)
(* fetch from before the unsubscribe.                                      *)
(***************************************************************************)
C7_FreshCycleOnResubscribe ==
  [][\A h \in Appearing :
       (Returns(h) /\ h.first /\ sessionStart > 1 /\ h.ctx \in Registered)
         => /\ nextFetch' = nextFetch + 1
            /\ display[h.ctx].kind = "tile"
                 => display[h.ctx].src >= sessionStart]_vars

(***************************************************************************)
(* C8: polling starts (a timer is armed and the immediate cycle fetches)   *)
(* on the subscribe that made the registry size 1, and on no other.        *)
(***************************************************************************)
C8_StartOnFirstSubscribeOnly ==
  [][\A h \in Appearing :
       (Returns(h) /\ h.ctx \in Registered)
         => ((liveTimers' # liveTimers /\ nextFetch' = nextFetch + 1)
               <=> h.first)]_vars

(***************************************************************************)
(* C9: a subscribe that arrives while the registry is non-empty starts no  *)
(* fetch, and when it has run with a cached reading present its observer   *)
(* shows that reading rendered with the settings it subscribed with.       *)
(***************************************************************************)
C9_LaterSubscribeNoFetch ==
  [][\A h \in Appearing :
       (Returns(h) /\ ~h.first)
         => /\ nextFetch' = nextFetch
            /\ HasCache => display'[h.ctx] = Tile(lastValue[1], h.settings,
                                                  lastValue[1])]_vars

(***************************************************************************)
(* C10: the publish loop works on the observer set as it is after the      *)
(* fetch: an observer that subscribed while the fetch was in flight and    *)
(* stays subscribed is still to be visited by the loop until it has been   *)
(* pushed the cycle's result, so the loop cannot end without serving it.   *)
(***************************************************************************)
C10_JoinedDuringFetchServed ==
  \A cy \in Publishing : cy.owed \subseteq Range(cy.todo)

\* A publish loop is under way: one observer already shows the cycle's
\* reading, and an observer that subscribed during the fetch is next.
C10_Witness ==
  \E cy \in Publishing : \E c \in cy.owed : \E a \in Registered \ {c} :
    /\ cy.phase = "tiles"
    /\ c \in Range(cy.todo)
    /\ display[a] = Tile(cy.value, SettingsOf(a), cy.id)

(***************************************************************************)
(* Steps of a cycle, told from the state change: the fetch of cy returns   *)
(* in this step (with a reading iff its value, the fetch id, is cached);   *)
(* a loop of cy visits the next key.                                       *)
(***************************************************************************)
After(cy) == {d \in cycles' : d.id = cy.id}
FetchReturned(cy) == cy \in Fetching /\ \A d \in After(cy) : d.phase # "fetch"
FetchOkStep(cy) == FetchReturned(cy) /\ lastValue' = Some(cy.id)
FetchFailedStep(cy) == FetchReturned(cy) /\ lastValue' # Some(cy.id)
Visits(cy) ==
  /\ cy \in Publishing
  /\ cy.todo # <<>>
  /\ activeContexts' = activeContexts
  /\ \E d \in After(cy) : d.todo = Tail(cy.todo)
TimerUntouched == liveTimers' = liveTimers /\ pollInterval' = pollInterval
LastUnsubscribe == activeContexts # <<>> /\ activeContexts' = <<>>

C12_FailureReplacesCache ==
  [][\A cy \in cycles :
       (FetchFailedStep(cy) /\ HasCache) => lastValue' # lastValue]_vars

(***************************************************************************)
(* C13: when the fetch of a cycle fails, the error loop starts from the    *)
(* whole registry and shows the error state on each key it visits, ending  *)
(* only when no key is left; the failure neither clears nor re-arms the    *)
(* timer and starts no fetch of its own, and a tick of an armed timer is   *)
(* never refused (as long as the fetch budget of the model lasts).         *)
(***************************************************************************)
C13_FailurePublishedTimerStays ==
  [][/\ \A cy \in cycles :
          /\ FetchFailedStep(cy) =>
               /\ TimerUntouched
               /\ nextFetch' = nextFetch
               /\ activeContexts # <<>> =>
                    /\ display'[Head(activeContexts)] = ErrorShown(cy.id)
                    /\ \E d \in After(cy) : /\ d.phase = "errors"
                                            /\ d.todo = Tail(activeContexts)
          /\ (Visits(cy) /\ cy.phase = "errors") =>
               /\ display'[Head(cy.todo)] = ErrorShown(cy.id)
               /\ TimerUntouched
               /\ nextFetch' = nextFetch
          /\ (cy.phase = "errors" /\ After(cy) = {}) => cy.todo = <<>>
     /\ \A t \in liveTimers : CanFetch => ENABLED intervalTick(t)]_vars

\* The first cycle has failed and its error loop is over: both keys show its
\* error, the timer it was started with is armed and can tick.
C13_Witness ==
  /\ Len(activeContexts) = 2
  /\ \A c \in Registered : display[c] = ErrorShown(1)
  /\ \A cy \in cycles : cy.id # 1
  /\ pollInterval = Some(1)
  /\ 1 \in liveTimers
  /\ CanFetch

(***************************************************************************)
(* C14: there is no fatal failure state.  The stored timer handle is       *)
(* dropped, and an armed timer cleared, only by the unsubscribe that       *)
(* empties the registry; a failed fetch (sentinel or exception) of a cycle *)
(* or of a manual refresh ends in the error state of the keys concerned    *)
(* and leaves timer, registry and cache as they were.                      *)
(***************************************************************************)
C14_NoFatalFailureState ==
  [][/\ (pollInterval # Null /\ pollInterval' = Null) => LastUnsubscribe
     /\ (liveTimers \subseteq liveTimers') \/ LastUnsubscribe
     /\ \A cy \in cycles :
          FetchFailedStep(cy) =>
            /\ TimerUntouched
            /\ UNCHANGED <<activeContexts, settingsCache, lastValue,
                           lastChange, handlers>>
     /\ \A h \in handlers :
          (h.kind = "refetch" /\ Returns(h)) =>
            /\ TimerUntouched
            /\ UNCHANGED <<activeContexts, settingsCache, lastValue,
                           lastChange, cycles>>
            /\ display'[h.ctx].kind \in {"error", "tile"}]_vars

\* Every fetch of the run has failed, the last one in a cycle started by a
\* tick, and the session is still polling with its key showing the error.
C14_Witness ==
  /\ nextFetch = MaxFetch + 1
  /\ lastValue = Undefined
  /\ handlers = {}
  /\ cycles = {}
  /\ activeContexts # <<>>
  /\ pollInterval = Some(1)
  /\ 1 \in liveTimers
  /\ \A c \in Registered : display[c] = ErrorShown(MaxFetch)

(***************************************************************************)
(* Calls of the analytics service, told from the state change: a call      *)
(* returns in this step; it resolved with a count (a successful reading).  *)
(* ChangeIs: ch is the percentage change from base to fresh, 0 for base 0. *)
(***************************************************************************)
Zero == [num |-> 0, den |-> 1]
Returned == calls' # calls
Succeeded(k) ==
  Returned /\ reading'.by = k /\ reading'.yielded /\ reading'.value # FailValue
ChangeIs(ch, fresh, base) ==
  /\ ch.den > 0
  /\ IF base = 0 THEN ch.num = 0
     ELSE ch.num * base = (fresh - base) * 100 * ch.den

C16_FirstReadingZero ==
  [][\A k \in CallKinds :
       (Succeeded(k) /\ lastOk[k] = Undefined)
         => /\ reading'.change = Zero
            /\ k = "fixed" =>
                 activeUsersSnapshot' =
                   [value |-> reading'.value, timestamp |-> now]]_vars

(***************************************************************************)
(* C17: a successful poll of the fixed-window metric with a snapshot in    *)
(* place compares with that snapshot; less than the window after the       *)
(* snapshot's timestamp it leaves the snapshot alone, at or after the      *)
(* boundary it replaces it by {fresh value, now}, so that a poll that      *)
(* follows at once is inside the new window.                               *)
(***************************************************************************)
C17_FixedWindowRollsAtBoundary ==
  [][(Succeeded("fixed") /\ activeUsersSnapshot.timestamp # 0)
       => /\ ChangeIs(reading'.change, reading'.value,
                      activeUsersSnapshot.value)
          /\ IF now - activeUsersSnapshot.timestamp < thirtyMinutesAgo
               THEN activeUsersSnapshot' = activeUsersSnapshot
               ELSE /\ activeUsersSnapshot' =
                         [value |-> reading'.value, timestamp |-> now]
                    /\ now' - activeUsersSnapshot'.timestamp
                         < thirtyMinutesAgo]_vars

\* A snapshot of 100 has just been rolled forward by a poll that read 115.
C17_Witness ==
  /\ reading = [by |-> "fixed", yielded |-> TRUE, value |-> 115,
                change |-> [num |-> 15, den |-> 1]]
  /\ activeUsersSnapshot = [value |-> 115, timestamp |-> now]

(***************************************************************************)
(* C18: with a baseline in place, a successful reading has change 0 when   *)
(* the baseline value is 0 and ((fresh - baseline) / baseline) * 100       *)
(* otherwise, a finite number: from 100 to 115 it is 15, from 0 to 50 it   *)
(* is 0.                                                                   *)
(***************************************************************************)
C18_PercentChange ==
  [][/\ (Succeeded("fixed") /\ activeUsersSnapshot.timestamp # 0)
          => /\ ChangeIs(reading'.change, reading'.value,
                         activeUsersSnapshot.value)
             /\ (activeUsersSnapshot.value = 100 /\ reading'.value = 115)
                  => reading'.change = [num |-> 15, den |-> 1]
             /\ (activeUsersSnapshot.value = 0 /\ reading'.value = 50)
                  => reading'.change = Zero
     /\ \A m \in RollingMetrics :
          (Succeeded(m) /\ lastOk[m] # Undefined)
            => /\ ChangeIs(reading'.change, reading'.value, previousValues[m])
               /\ (previousValues[m] = 100 /\ reading'.value = 115)
                    => reading'.change = [num |-> 15, den |-> 1]
               /\ (previousValues[m] = 0 /\ reading'.value = 50)
                    => reading'.change = Zero]_vars

\* A rolling poll has read 50 after 115: a change of -1300/23 per cent.
C18_Witness ==
  /\ reading.by \in RollingMetrics
  /\ reading.yielded
  /\ reading.value = 50
  /\ reading.change = [num |-> -1300, den |-> 23]

(***************************************************************************)
(* C19: in the rolling version every successful poll of a metric stores    *)
(* the fresh value as that metric's comparison point (and touches no other *)
(* metric's), so the change of a poll is the change from the value of the  *)
(* metric's latest successful poll before it.                              *)
(***************************************************************************)
C19_RollingBaseline ==
  [][\A m \in RollingMetrics :
       /\ lastOk[m] # Undefined => previousValues[m] = lastOk[m][1]
       /\ Succeeded(m) =>
            /\ previousValues' = [previousValues EXCEPT ![m] = reading'.value]
            /\ lastOk[m] # Undefined =>
                 ChangeIs(reading'.change, reading'.value, lastOk[m][1])]_vars

\* Three polls of one metric: the third read 115 after 100.
C19_Witness ==
  /\ calls = 3
  /\ reading = [by |-> "activeUsers", yielded |-> TRUE, value |-> 115,
                change |-> [num |-> 15, den |-> 1]]
  /\ previousValues = [m \in RollingMetrics |->
                         IF m = "activeUsers" THEN 115 ELSE 0]

(***************************************************************************)
(* C20: the snapshot is absent ({0, 0}) exactly until the first successful *)
(* poll of the active users; it changes only in a step in which such a     *)
(* poll returns a count, and then value and timestamp are both written     *)
(* from that one observation.                                              *)
(***************************************************************************)
C20_BaselineWrittenWhole ==
  [][/\ (lastOk["fixed"] = Undefined)
          <=> (activeUsersSnapshot = [value |-> 0, timestamp |-> 0])
     /\ lastOk["fixed"] # Undefined => activeUsersSnapshot.timestamp # 0
     /\ activeUsersSnapshot' # activeUsersSnapshot
          => /\ Succeeded("fixed")
             /\ activeUsersSnapshot' =
                  [value |-> reading'.value, timestamp |-> now]]_vars

\* The snapshot has been replaced a second time, by a poll that read 50.
C20_Witness ==
  /\ reading.by = "fixed"
  /\ reading.value = 50
  /\ reading.change # Zero
  /\ activeUsersSnapshot = [value |-> 50, timestamp |-> now]

(***************************************************************************)
(* Host events told from the state change.  A settings event leaves the    *)
(* registry and the suspended handlers as they are; so does a key press    *)
(* while an equal key press is suspended, which changes no settings and    *)
(* shows "Updating..." if it shows anything new.                           *)
(***************************************************************************)
HostEventStep == events' # events
SettingsStep ==
  /\ HostEventStep
  /\ activeContexts' = activeContexts
  /\ handlers' = handlers
  /\ \/ settingsCache' # settingsCache
     \/ /\ display' # display
        /\ \A c \in Ctx : display'[c] # display[c] =>
                              display'[c].kind # "updating"
Stored == {c \in Ctx : settingsCache[c] # Absent}

(***************************************************************************)
(* C21: a settings event replaces the stored settings of one registered    *)
(* key and of no other, pushes the cached reading (when there is one)      *)
(* rendered with the new settings to that key and to no other, and starts  *)
(* no fetch; timer, cache, cycles in flight and the service's baselines    *)
(* stay as they were.                                                      *)
(***************************************************************************)
C21_SettingsChangeRerendersOnly ==
  [][SettingsStep =>
       /\ \E c \in Registered :
            /\ settingsCache'[c] \in Prefs
            /\ settingsCache' = [settingsCache EXCEPT ![c] = settingsCache'[c]]
            /\ display' =
                 IF HasCache
                   THEN [display EXCEPT ![c] =
                           Tile(lastValue[1], settingsCache'[c], lastValue[1])]
                   ELSE display
       /\ nextFetch' = nextFetch
       /\ TimerUntouched
       /\ UNCHANGED <<lastValue, lastChange, cycles, trackerVars>>]_vars

\* A key shows the cached reading with settings other than those of its
\* neighbour and of the cycle's push: one subscribe each and one settings
\* event are the three events behind it.
C21_Witness ==
  /\ events = 3
  /\ Len(activeContexts) = 2
  /\ handlers = {}
  /\ cycles = {}
  /\ nextFetch = 2
  /\ HasCache
  /\ \A c \in Registered :
       display[c] = Tile(lastValue[1], settingsCache[c], lastValue[1])

(***************************************************************************)
(* C22: a manual refresh starts exactly one fetch of its own and shows its *)
(* result on the key that was pressed and on no other; from the key press  *)
(* to the push it leaves timer, registry, cached reading and cycles alone. *)
(***************************************************************************)
C22_ManualRefreshIsLocal ==
  [][\A h \in handlers :
       /\ (h.kind = "keydown" /\ Returns(h)) =>
            /\ nextFetch' = nextFetch + 1
            /\ TimerUntouched
            /\ UNCHANGED <<activeContexts, lastValue, lastChange, cycles,
                           display>>
       /\ (h.kind = "refetch" /\ Returns(h)) =>
            /\ display'[h.ctx] \in {ErrorShown(h.src),
                                    Tile(h.src, h.settings, h.src)}
            /\ \A c \in Ctx \ {h.ctx} : display'[c] = display[c]
            /\ nextFetch' = nextFetch
            /\ TimerUntouched
            /\ UNCHANGED <<activeContexts, lastValue, lastChange, cycles>>]_vars

\* The first cycle has published reading 1 to both keys; one of them was
\* pressed and shows reading 2, the other and the cache still hold 1.
C22_Witness ==
  /\ handlers = {}
  /\ cycles = {}
  /\ lastValue = Some(1)
  /\ pollInterval = Some(1)
  /\ \E c \in Registered : \E o \in Registered \ {c} :
       /\ display[c] = Tile(2, settingsCache[c], 2)
       /\ display[o] = Tile(1, settingsCache[o], 1)

(***************************************************************************)
(* C23: the polling cost does not depend on the number of observers.       *)
(* While keys are registered and no subscribe is still suspended, exactly  *)
(* one timer is armed (one cycle per interval); a subscribe that arrived   *)
(* with the registry non-empty arms no timer, and an unsubscribe that      *)
(* leaves a key registered clears none.                                    *)
(***************************************************************************)
C23_OneTimerForAnyNumber ==
  [][/\ (Registered # {} /\ Appearing = {}) => Cardinality(liveTimers) = 1
     /\ \A h \in Appearing :
          (Returns(h) /\ ~h.first) => liveTimers' = liveTimers
     /\ (Len(activeContexts') < Len(activeContexts) /\ activeContexts' # <<>>)
          => liveTimers' = liveTimers]_vars

(***************************************************************************)
(* C30: at most one interval timer is live, and a live timer is the one    *)
(* the stored handle refers to.                                            *)
(***************************************************************************)
C30_AtMostOneLiveTimer ==
  /\ Cardinality(liveTimers) <= 1
  /\ \A t \in liveTimers : pollInterval = Some(t)

C25_ToggleStartsNoFetch ==
  [][\A h \in handlers :
       (h.kind = "keydown" /\ Returns(h)) => nextFetch' = nextFetch]_vars

(***************************************************************************)
(* C25 as the code has it: when the handler of a key press goes on, it     *)
(* re-renders the key from the cached reading of the period now shown if   *)
(* there is one, starting no fetch; it starts a fetch only when that       *)
(* period has no cached reading.  The cached readings stay as they are.    *)
(***************************************************************************)
C25_ToggleFetchesOnlyWithoutCache ==
  [][\A h \in handlers :
       (h.kind = "keydown" /\ Returns(h)) =>
         /\ cachedNow(h.settings) # Undefined =>
              /\ nextFetch' = nextFetch
              /\ display' = Monthly_push(h.ctx, h.settings,
                                         cachedNow(h.settings)[1],
                                         cachedNow(h.settings)[1])
         /\ cachedNow(h.settings) = Undefined =>
              /\ nextFetch' = nextFetch + 1
              /\ display' = display
         /\ UNCHANGED <<settingsCache, lastValue, lastChange,
                        lastPreviousValue, lastPreviousChange>>]_vars

\* One key appeared showing the current period, the first cycle cached both
\* periods and published, and the key was pressed: its handler is about to
\* re-render the previous period from the cache.
C25_Witness ==
  /\ events = 2
  /\ nextFetch = 2
  /\ cycles = {}
  /\ \E h \in handlers :
       /\ h.kind = "keydown"
       /\ h.settings = "previous"
       /\ settingsCache[h.ctx] = "previous"
       /\ cachedNow(h.settings) # Undefined
       /\ display[h.ctx].kind = "tile"
       /\ display[h.ctx].prefs = "current"

MinPollIntervalMs == 5000

C28_IntervalDefaultAndMinimum ==
  (loaded.done /\ ~loaded.thrown) =>
    /\ config.pollIntervalMs = Undefined =>
         loaded.pollIntervalMs = DefaultPollIntervalMs
    /\ loaded.pollIntervalMs >= MinPollIntervalMs

(***************************************************************************)
(* C29: a rendered tile shows an up arrow exactly when the change is       *)
(* above 0, a down arrow exactly when it is below 0, and no arrow when the *)
(* change is 0 or no change is given.  An arrow is shown when the SVG has  *)
(* it and some corner of it lies on the canvas.                            *)
(***************************************************************************)
Shows(dir) ==
  /\ svg.arrow.dir = dir
  /\ \E p \in svg.arrow.points : onCanvas(p)

C29_ArrowFollowsSign ==
  svg.done =>
    /\ Shows("up") <=>
         (data.percentageChange # Undefined /\ data.percentageChange[1] > 0)
    /\ Shows("down") <=>
         (data.percentageChange # Undefined /\ data.percentageChange[1] < 0)

(***************************************************************************)
(* C27: polling state is scoped per metric: a step of one action class (a  *)
(* subscribe, an unsubscribe, a tick, a settings change, a manual refresh, *)
(* or the continuation of one) leaves the timer, the observers, the cached *)
(* reading and the comparison value of every other class as they were.     *)
(***************************************************************************)
PollingState(st) ==
  <<st.pollInterval, st.liveTimers, st.activeContexts, st.settingsCache,
    st.lastValue, st.lastChange, st.previous>>

Shown == {c \in Ctx : display[c].kind \in {"tile", "error"}}

C32_NoPushToUnregistered == Shown \subseteq Registered

(***************************************************************************)
(* C33: results are applied in the order their fetches started: the cached *)
(* reading is never replaced by the reading of an earlier fetch, and a key *)
(* that stays registered is never shown the result of an earlier fetch     *)
(* than the one it shows.                                                  *)
(***************************************************************************)
C33_AppliedInFetchStartOrder ==
  [][/\ (lastValue # Undefined /\ lastValue' # Undefined) =>
          lastValue'[1] >= lastValue[1]
     /\ \A c \in Shown :
          (c \in Registered /\ display'[c].kind \in {"tile", "error"}) =>
             display'[c].src >= display[c].src]_vars

(***************************************************************************)
(* C35: for every metric action, the tile a manual refresh publishes is    *)
(* rendered with the preferences stored for the key that was pressed, as   *)
(* the publish loop of a tick renders it.                                  *)
(***************************************************************************)
C35_RefreshRendersWithStoredPrefs ==
  [][\A m \in MetricKey : \A h \in metrics[m].handlers :
       (/\ h.kind = "refetch"
        /\ h \notin metrics'[m].handlers
        /\ h.ctx \in Range(metrics'[m].activeContexts)
        /\ metrics'[m].display[h.ctx].kind = "tile") =>
          metrics'[m].display[h.ctx].prefs
            = Action_SettingsOf(metrics'[m], h.ctx)]_vars

(***************************************************************************)
(* C37: a tick of the monthly action fetches the current and the previous  *)
(* period together.  When the current period fails (or the await throws)   *)
(* none of the four cache fields changes and the error loop shows the      *)
(* error state on every key it visits, whatever period the key shows.      *)
(* When only the previous period fails, the readings of both are stored    *)
(* from that one fetch, and the publish loop shows a key of the current    *)
(* period the new value and a key of the previous period the error state.  *)
(***************************************************************************)
MonthlyCaches ==
  <<lastValue, lastChange, lastPreviousValue, lastPreviousChange>>

OnlyPreviousFailed(id) ==
  lastValue = Some(id) /\ lastPreviousValue = Some(FailValue)

PeriodShown(c, d, id) ==
  IF showingPrevious(settingsCache[c])
    THEN d.kind = "error"
    ELSE d = Tile(id, settingsCache[c], id)

C37_MonthlyPartialFailure ==
  [][\A cy \in cycles :
       /\ FetchFailedStep(cy) =>
            /\ MonthlyCaches' = MonthlyCaches
            /\ nextFetch' = nextFetch
            /\ activeContexts # <<>> =>
                 /\ display'[Head(activeContexts)] = ErrorShown(cy.id)
                 /\ \E d \in After(cy) : /\ d.phase = "errors"
                                         /\ d.todo = Tail(activeContexts)
       /\ (Visits(cy) /\ cy.phase = "errors") =>
            display'[Head(cy.todo)] = ErrorShown(cy.id)
       /\ FetchOkStep(cy) =>
            /\ lastPreviousValue' \in {Some(cy.id), Some(FailValue)}
            /\ lastChange' # Undefined /\ lastPreviousChange' # Undefined
       /\ (FetchOkStep(cy) /\ lastPreviousValue' = Some(FailValue)
             /\ activeContexts # <<>>) =>
            /\ PeriodShown(Head(activeContexts),
                           display'[Head(activeContexts)], cy.id)
            /\ nextFetch' = nextFetch
       /\ (Visits(cy) /\ cy.phase = "tiles" /\ OnlyPreviousFailed(cy.id)) =>
            /\ PeriodShown(Head(cy.todo), display'[Head(cy.todo)], cy.id)
            /\ nextFetch' = nextFetch]_vars

\* The first tick got the current period and not the previous one, and its
\* publish loop is over: the key of the current period shows the reading,
\* the key of the previous period the error state.
C37_Witness ==
  /\ OnlyPreviousFailed(1)
  /\ cycles = {}
  /\ Len(activeContexts) = 2
  /\ \E c \in Registered : \E o \in Registered :
       /\ settingsCache[c] = "current"
       /\ settingsCache[o] = "previous"
       /\ display[c] = Tile(1, "current", 1)
       /\ display[o].kind = "error"

(***************************************************************************)
(* C34: a manual refresh does not change what the next tick compares its   *)
(* count with: when the fetch of a manual refresh returns, the comparison  *)
(* value of the service is what it was.                                    *)
(***************************************************************************)
C34_RefreshKeepsBaseline ==
  [][\A m \in MetricKey : \A h \in metrics[m].handlers :
       (h.kind = "refetch" /\ h \notin metrics'[m].handlers) =>
          metrics'[m].previous = metrics[m].previous]_vars

(***************************************************************************)
(* C36: an unsubscribe, the one that stops polling included, leaves the    *)
(* comparison value of the service as it is, and a cycle whose fetch       *)
(* succeeds caches the change of its count against the comparison value    *)
(* as it was before, also when that value was captured in an earlier       *)
(* polling session.                                                        *)
(***************************************************************************)
C36_BaselineSurvivesSessions ==
  [][\A m \in MetricKey :
       /\ Len(metrics'[m].activeContexts) < Len(metrics[m].activeContexts) =>
            metrics'[m].previous = metrics[m].previous
       /\ \A cy \in metrics[m].cycles :
            (/\ cy.phase = "fetch"
             /\ \A d \in metrics'[m].cycles : d.id = cy.id => d.phase # "fetch"
             /\ metrics'[m].lastValue = Some(cy.id)) =>
               /\ metrics'[m].lastChange # Undefined
               /\ ChangeIs(metrics'[m].lastChange[1], cy.id,
                           metrics[m].previous)]_vars

\* Active users polled once (count 1), its last key disappeared, and the
\* first cycle of its second session (count 2) cached +100%.
C36_Witness ==
  /\ metrics["active-users"].pollInterval = Some(2)
  /\ metrics["active-users"].liveTimers = {2}
  /\ metrics["active-users"].stops = 1
  /\ metrics["active-users"].lastValue = Some(2)
  /\ metrics["active-users"].lastChange = Some([num |-> 100, den |-> 1])
  /\ metrics["active-users"].previous = 2

(***************************************************************************)
(* C38: saves are debounced.  A burst is a run of saveSettings calls each  *)
(* made while the timeout of the one before is pending.  Every burst gets  *)
(* exactly one setSettings message (at most one timeout is pending, and    *)
(* the messages sent and the timeout pending count the bursts started);    *)
(* the message is sent 300 ms after the last call of the burst, and its    *)
(* payload is the cache as it was before the burst with the edits of the   *)
(* burst spread over it, later values winning.                             *)
(***************************************************************************)
Sends == Len(sent') > Len(sent)
Message == sent'[Len(sent')]

C38_DebouncedSave ==
  [][/\ Cardinality(timeouts) <= 1
     /\ Len(sent) + Cardinality(timeouts) = burst.started
     /\ Sends =>
          /\ Len(sent') = Len(sent) + 1
          /\ saveSettingsTimer = Some(Message.at)
          /\ Message.payload = Spread(burst.base, burst.edits)]_vars

(***************************************************************************)
(* C39: no edit is lost.  The message that ends a burst holds, for every   *)
(* field edited in the burst, the last value passed to saveSettings, also  *)
(* when a didReceiveSettings message arrived while the timeout was         *)
(* pending.                                                                *)
(***************************************************************************)
C39_NoEditLost ==
  [][Sends =>
       \A k \in InspectorKeys :
         burst.edits[k] # Unset => Message.payload[k] = burst.edits[k]]_vars

(***************************************************************************)
(* C31: under fair scheduling of timers and fetch completions, a key that  *)
(* is registered and shows "Loading..." comes to show a reading or the     *)
(* error state, unless it is unregistered first; also when two keys        *)
(* appear so that their onWillAppear handlers interleave at the awaited    *)
(* title update.  (A behaviour that has used up the fetch numbers of the   *)
(* model is left out.)                                                     *)
(***************************************************************************)
StaysLoading(c) == c \in Registered /\ display[c].kind = "loading"

C31_LoadingEnds ==
  \A c \in Ctx :
    StaysLoading(c) ~> (c \in Shown \/ c \notin Registered \/ ~CanFetch)

====
